---- MODULE Spec2Model ----
(***************************************************************************)
(* A model of the keateka backend: the job lifecycle service               *)
(* (app/api/jobs/service.py), the assignment path of the features job      *)
(* service (app/features/jobs/service.py) and the M-PESA payment           *)
(* reconciliation handlers (app/api/payments, app/api/v1/endpoints).       *)
(*                                                                         *)
(* Times are minutes on a coarse grid; money is in cents (1 KES = 100).    *)
(***************************************************************************)
EXTENDS Integers, Sequences, FiniteSets, TLC

VARIABLES
    jobs,           \* jobs table of app.api.jobs.models.Job, by job id
    slots,          \* schedule_slots table, by slot id
    now,            \* the wall clock, datetime.now(timezone.utc)
    payments,       \* payments table of app.api.payments.models.Payment
    legacy,         \* payment columns of app.models.job.Job, by job id
    notifications,  \* how often app.core.notifications sent each notification
    delivered,      \* per handler and row, the callback handled last
    fjobs,          \* jobs table of app.features.jobs.models.Job
    req,            \* in-flight assign_cleaner requests, each with its session
    sessions,       \* the time tracker's session of each job
    calc            \* the call of a pure function at hand: its arguments and result

vars == <<jobs, slots, now, payments, legacy, notifications, delivered, fjobs, req,
          sessions, calc>>

jobVars == <<jobs, slots>>
payVars == <<payments, legacy, notifications, delivered>>
assignVars == <<fjobs, req, sessions>>

----------------------------------------------------------------------------
(* Bounds of the model *)

MaxJobs == 2
MaxSlots == 2
MaxPayments == 2
MaxNotifications == 2
MaxRequests == 2

JobIds == 1..MaxJobs
SlotIds == 1..MaxSlots
PayIds == 1..MaxPayments
ReqIds == 1..MaxRequests
Clients == {"client1"}
Cleaners == {"cleaner1", "cleaner2"}
\* Every caller: the clients, the cleaners and a user who owns no job.
Users == Clients \cup Cleaners \cup {"stranger"}

\* The instants of the clock, and of a proposed slot's start.
TimeGrid == {0, 30}
\* The end of a proposed slot.
SlotEnds == {30, 60, 90}
\* estimated_duration_minutes of a created job.
Durations == {30, 60}
\* actual_duration_minutes reported on completion.
ActualDurations == {30, 90}
\* is_proposed_by_cleaner of a proposed slot.
ProposedBy == {TRUE}

----------------------------------------------------------------------------
(* app/api/jobs/models.py *)

PENDING == "pending"
SCHEDULED == "scheduled"
IN_PROGRESS == "in_progress"
COMPLETED == "completed"
PAID == "paid"
CANCELED == "canceled"
JobStatus == {PENDING, SCHEDULED, IN_PROGRESS, COMPLETED, PAID, CANCELED}

\* A nullable column holding NULL.
NoValue == -1
NoUser == "none"
\* A table row that does not exist.
NoRow == [exists |-> FALSE]

\* ScheduleSlot.is_accepted: Null=pending, True=accepted, False=rejected
SlotPending == "null"
SlotAccepted == "true"
SlotRejected == "false"

\* JobService.base_rate_per_minute = 4.50 KES, in cents.
base_rate_per_minute == 450

----------------------------------------------------------------------------
(* app/api/jobs/service.py: JobService *)

_calculate_base_cost(duration_minutes) == duration_minutes * base_rate_per_minute

\* extra_minutes * base_rate_per_minute * 1.2, in cents
_calculate_final_cost(base_cost, actual_minutes, estimated_minutes) ==
    IF actual_minutes <= estimated_minutes
    THEN base_cost
    ELSE base_cost + ((actual_minutes - estimated_minutes) * base_rate_per_minute * 12) \div 10

Job(client_id, duration) ==
    [exists |-> TRUE,
     client_id |-> client_id,
     cleaner_id |-> NoUser,
     status |-> PENDING,
     estimated_duration_minutes |-> duration,
     actual_duration_minutes |-> NoValue,
     base_cost |-> _calculate_base_cost(duration),
     final_cost |-> NoValue,
     scheduled_for |-> NoValue,
     started_at |-> NoValue,
     completed_at |-> NoValue]

ScheduleSlot(job_id, start_time, end_time, proposed_by_cleaner) ==
    [exists |-> TRUE,
     job_id |-> job_id,
     start_time |-> start_time,
     end_time |-> end_time,
     is_proposed_by_cleaner |-> proposed_by_cleaner,
     is_accepted |-> SlotPending]

Abs(x) == IF x < 0 THEN -x ELSE x

\* JobRepository.create_job: the new row takes the next free id.
create_job(client_id, duration) ==
    /\ \E j \in JobIds :
         /\ ~jobs[j].exists
         /\ \A k \in JobIds : k < j => jobs[k].exists
         /\ jobs' = [jobs EXCEPT ![j] = Job(client_id, duration)]
    /\ UNCHANGED <<slots, now, payVars, assignVars, calc>>

\* slot_data.start_time < datetime.now(timezone.utc) compares the request's time
\* with an offset-aware one: for a time sent without a UTC offset (`aware` is
\* FALSE) the comparison raises TypeError, an unhandled error (500).
propose_schedule_slot_code(j, start_time, end_time, aware) ==
    IF ~jobs[j].exists THEN 404
    ELSE IF jobs[j].status # PENDING /\ jobs[j].status # SCHEDULED THEN 400
    ELSE IF ~aware THEN 500
    ELSE IF start_time < now THEN 400
    ELSE IF end_time <= start_time THEN 400
    ELSE IF Abs((end_time - start_time) - jobs[j].estimated_duration_minutes) > 15 THEN 400
    ELSE 200

propose_schedule_slot(j, start_time, end_time, aware, proposed_by_cleaner) ==
    /\ IF propose_schedule_slot_code(j, start_time, end_time, aware) = 200
       THEN \E s \in SlotIds :
              /\ ~slots[s].exists
              /\ \A k \in SlotIds : k < s => slots[k].exists
              /\ slots' = [slots EXCEPT ![s] =
                             ScheduleSlot(j, start_time, end_time, proposed_by_cleaner)]
       ELSE UNCHANGED slots
    /\ UNCHANGED <<jobs, now, payVars, assignVars, calc>>

\* accept_schedule_slot with the check that the slot is still pending left out.
accept_schedule_slot_code_any_slot(j, slot_id, client_id) ==
    IF ~jobs[j].exists THEN 404
    ELSE IF jobs[j].client_id # client_id THEN 403
    ELSE IF ~(slots[slot_id].exists /\ slots[slot_id].job_id = j) THEN 404
    ELSE 200

\* The slot `slot_id` among job.schedule_slots, the slots whose job_id is the job's.
accept_schedule_slot_code(j, slot_id, client_id) ==
    IF ~jobs[j].exists THEN 404
    ELSE IF jobs[j].client_id # client_id THEN 403
    ELSE IF ~(slots[slot_id].exists /\ slots[slot_id].job_id = j) THEN 404
    ELSE IF slots[slot_id].is_accepted # SlotPending THEN 400
    ELSE 200

accept_schedule_slot(j, slot_id, client_id, cleaner_id) ==
    /\ IF accept_schedule_slot_code(j, slot_id, client_id) = 200
       THEN /\ slots' = [slots EXCEPT ![slot_id].is_accepted = SlotAccepted]
            /\ jobs' = [jobs EXCEPT ![j].cleaner_id = cleaner_id,
                                    ![j].status = SCHEDULED,
                                    ![j].scheduled_for = slots[slot_id].start_time]
       ELSE UNCHANGED <<jobs, slots>>
    /\ UNCHANGED <<now, payVars, assignVars, calc>>

start_job_code(j, cleaner_id) ==
    IF ~jobs[j].exists THEN 404
    ELSE IF jobs[j].cleaner_id # cleaner_id THEN 403
    ELSE IF jobs[j].status # SCHEDULED THEN 400
    ELSE 200

\* start_job without the write of started_at.
start_job_without_started_at(j, cleaner_id) ==
    /\ IF start_job_code(j, cleaner_id) = 200
       THEN jobs' = [jobs EXCEPT ![j].status = IN_PROGRESS]
       ELSE UNCHANGED jobs
    /\ UNCHANGED <<slots, now, payVars, assignVars, calc>>

start_job(j, cleaner_id) ==
    /\ IF start_job_code(j, cleaner_id) = 200
       THEN jobs' = [jobs EXCEPT ![j].status = IN_PROGRESS,
                                 ![j].started_at = now]
       ELSE UNCHANGED jobs
    /\ UNCHANGED <<slots, now, payVars, assignVars, calc>>

complete_job_code(j, cleaner_id) ==
    IF ~jobs[j].exists THEN 404
    ELSE IF jobs[j].cleaner_id # cleaner_id THEN 403
    ELSE IF jobs[j].status # IN_PROGRESS THEN 400
    ELSE IF jobs[j].started_at = NoValue THEN 500
    ELSE 200

complete_job(j, cleaner_id, actual_duration_minutes) ==
    /\ IF complete_job_code(j, cleaner_id) = 200
       THEN jobs' = [jobs EXCEPT
                       ![j].status = COMPLETED,
                       ![j].completed_at = now,
                       ![j].actual_duration_minutes = actual_duration_minutes,
                       ![j].final_cost =
                           _calculate_final_cost(jobs[j].base_cost,
                                                 actual_duration_minutes,
                                                 jobs[j].estimated_duration_minutes)]
       ELSE UNCHANGED jobs
    /\ UNCHANGED <<slots, now, payVars, assignVars, calc>>

mark_job_paid_code(j) ==
    IF ~jobs[j].exists THEN 404
    ELSE IF jobs[j].status # COMPLETED THEN 400
    ELSE 200

mark_job_paid(j) ==
    /\ IF mark_job_paid_code(j) = 200
       THEN jobs' = [jobs EXCEPT ![j].status = PAID]
       ELSE UNCHANGED jobs
    /\ UNCHANGED <<slots, now, payVars, assignVars, calc>>

\* cancel_job with the cleaner's side of the authorization check left out.
cancel_job_code_client_check_only(j, user_id, is_client) ==
    IF ~jobs[j].exists THEN 404
    ELSE IF is_client /\ jobs[j].client_id # user_id THEN 403
    ELSE IF jobs[j].status \in {COMPLETED, PAID} THEN 400
    ELSE 200

cancel_job_code(j, user_id, is_client) ==
    IF ~jobs[j].exists THEN 404
    ELSE IF is_client /\ jobs[j].client_id # user_id THEN 403
    ELSE IF ~is_client /\ jobs[j].cleaner_id # user_id THEN 403
    ELSE IF jobs[j].status \in {COMPLETED, PAID} THEN 400
    ELSE 200

cancel_job(j, user_id, is_client) ==
    /\ IF cancel_job_code(j, user_id, is_client) = 200
       THEN jobs' = [jobs EXCEPT ![j].status = CANCELED]
       ELSE UNCHANGED jobs
    /\ UNCHANGED <<slots, now, payVars, assignVars, calc>>

\* Time passes between two requests.
Tick ==
    /\ \E t \in TimeGrid : t > now /\ now' = t
    /\ UNCHANGED <<jobs, slots, payVars, assignVars, calc>>

----------------------------------------------------------------------------
(* app/api/payments: PaymentService, PaymentProcessor and the routes *)

PAY_PENDING == "pending"
PAY_PROCESSING == "processing"
PAY_COMPLETED == "completed"
PAY_FAILED == "failed"
PAY_REFUNDED == "refunded"

\* A JSON value of the callback body: Python's 0 and "0" are different values.
JsonInt(n) == [type |-> "int", value |-> n]
JsonStr(n) == [type |-> "str", value |-> n]
\* ResultCode as the gateway's wire contract sends it: 0 is success, 1032 a
\* charge the payer cancelled.
ResultCodes == {JsonInt(0), JsonStr(0), JsonInt(1032)}
\* TransactionId of a callback body, when present.
NoRef == "none"
TransactionIds == {NoRef, "TX1"}
\* The gateway's answer to a charge request: a charge accepted, a transport
\* failure, a status other than 200, a body with a non-zero ResponseCode, a body
\* without the CheckoutRequestID key, a body whose CheckoutRequestID is null.
GatewayAnswers ==
    {"accepted", "network_error", "timeout", "http_500", "response_code_1",
     "no_checkout_key", "null_checkout"}
\* The answers on which both gateway clients raise.
GatewayRaises == {"network_error", "timeout", "http_500"}
\* CheckoutRequestID: the gateway issues a fresh one per accepted charge request.
NoCheckout == 0
CheckoutRequestID(p) == p
CheckoutIds == {CheckoutRequestID(p) : p \in PayIds} \cup {NoCheckout}

\* TimeUtils.generate_timestamp: the Nairobi time as YYYYMMDDHHMMSS, one value
\* per second. An instant of the clock stands for one second: requests made
\* with no tick between them get the same timestamp.
generate_timestamp(t) == t

\* The row routes.initiate_mpesa_payment has PaymentService.create_payment
\* insert, with reference f"PAY-{job.id}-{timestamp}".
Payment(job_id, user_id) ==
    [exists |-> TRUE,
     reference |-> <<"PAY", job_id, generate_timestamp(now)>>,
     job_id |-> job_id,
     user_id |-> user_id,
     status |-> PAY_PENDING,
     provider_reference |-> NoRef,
     checkout_request_id |-> NoCheckout,
     completed_at |-> NoValue]

\* PaymentService.update_payment_status on row `row` (updated_at, which nothing
\* reads, is left out).
update_payment_status(row, new_status, provider_reference, checkout) ==
    [row EXCEPT
       !.status = new_status,
       !.provider_reference =
           IF provider_reference # NoRef THEN provider_reference ELSE @,
       !.checkout_request_id = IF checkout # NoCheckout THEN checkout ELSE @,
       !.completed_at =
           IF new_status \in {PAY_COMPLETED, PAY_FAILED} THEN now ELSE @]

\* MPESAClient.initiate_stk_push (features/payments/mpesa.py): raises on a
\* transport failure, on a status other than 200 and on a ResponseCode that is
\* present and not "0"; otherwise returns the body as it came.
initiate_stk_push(answer, checkout) ==
    [raised |-> answer \in GatewayRaises \cup {"response_code_1"},
     has_checkout_key |-> answer \in {"accepted", "null_checkout"},
     CheckoutRequestID |-> IF answer = "accepted" THEN checkout ELSE NoCheckout]

\* PaymentProcessor.process_mpesa_payment raises PaymentProcessingError: the
\* client raised, or mpesa_response["CheckoutRequestID"] is a KeyError.
process_mpesa_payment_raises(answer) ==
    LET mpesa_response == initiate_stk_push(answer, NoCheckout)
    IN  mpesa_response.raised \/ ~mpesa_response.has_checkout_key

\* process_mpesa_payment with the check of the payment's status left out.
process_mpesa_payment_unchecked(row, p, answer) ==
    LET mpesa_response == initiate_stk_push(answer, CheckoutRequestID(p))
    IN  IF process_mpesa_payment_raises(answer)
        THEN update_payment_status(row, PAY_FAILED, NoRef, NoCheckout)
        ELSE update_payment_status(row, PAY_PROCESSING, NoRef,
                                   mpesa_response.CheckoutRequestID)

\* PaymentProcessor.process_mpesa_payment: the row as the call leaves it. A row
\* that is not PENDING is left alone (InvalidPaymentStateError, raised before
\* the charge request); p is the payment the gateway's checkout id is issued for.
process_mpesa_payment(row, p, answer) ==
    LET mpesa_response == initiate_stk_push(answer, CheckoutRequestID(p))
    IN  IF row.status # PAY_PENDING
        THEN row
        ELSE IF process_mpesa_payment_raises(answer)
        THEN update_payment_status(row, PAY_FAILED, NoRef, NoCheckout)
        ELSE update_payment_status(row, PAY_PROCESSING, NoRef,
                                   mpesa_response.CheckoutRequestID)

\* What process_mpesa_payment raises.
process_mpesa_payment_error(row, answer) ==
    IF row.status # PAY_PENDING THEN "InvalidPaymentStateError"
    ELSE IF process_mpesa_payment_raises(answer) THEN "PaymentProcessingError"
    ELSE "none"

\* PaymentService.initiate_mpesa_payment on row `row`: a falsy CheckoutRequestID
\* is a ValueError, and every exception marks the row FAILED.
PaymentService_initiate_mpesa_payment(row, p, answer) ==
    LET response == initiate_stk_push(answer, CheckoutRequestID(p))
    IN  IF response.raised \/ ~response.has_checkout_key
           \/ response.CheckoutRequestID = NoCheckout
        THEN [row EXCEPT !.status = PAY_FAILED]
        ELSE [row EXCEPT !.status = PAY_PROCESSING,
                         !.checkout_request_id = response.CheckoutRequestID]

\* create_payment as it would be without the unique index on reference.
create_payment_never_raises(j, user_id) == FALSE

\* PaymentService.create_payment raises IntegrityError at its commit: the
\* reference column is unique and a row holds this reference already.
create_payment_raises(j, user_id) ==
    \E p \in PayIds :
        payments[p].exists /\ payments[p].reference = Payment(j, user_id).reference

initiate_mpesa_payment_code(j, user_id, answer) ==
    IF ~jobs[j].exists THEN 404
    ELSE IF jobs[j].client_id # user_id THEN 403
    ELSE IF create_payment_raises(j, user_id) THEN 500
    ELSE IF process_mpesa_payment_raises(answer) THEN 502
    ELSE 200

\* routes.initiate_mpesa_payment: the payment row is created before the charge
\* request; a failed charge request marks it FAILED (in the processor, and once
\* more in the route's handler).
initiate_mpesa_payment(j, user_id, answer) ==
    /\ IF initiate_mpesa_payment_code(j, user_id, answer) \in {200, 502}
       THEN \E p \in PayIds :
              /\ ~payments[p].exists
              /\ \A k \in PayIds : k < p => payments[k].exists
              /\ payments' = [payments EXCEPT ![p] =
                     LET done == process_mpesa_payment(Payment(j, user_id), p, answer)
                     IN  IF process_mpesa_payment_raises(answer)
                         THEN update_payment_status(done, PAY_FAILED, NoRef, NoCheckout)
                         ELSE done]
       ELSE UNCHANGED payments
    /\ UNCHANGED <<jobVars, now, legacy, notifications, delivered, assignVars, calc>>

\* PaymentService.get_payment_by_checkout_request_id
get_payment_by_checkout_request_id(checkout) ==
    {p \in PayIds : payments[p].exists /\ payments[p].checkout_request_id = checkout}

mpesa_callback_code(checkout) ==
    IF checkout = NoCheckout THEN 400
    ELSE IF get_payment_by_checkout_request_id(checkout) = {} THEN 404
    ELSE 200

\* routes.mpesa_callback: result_code == "0" compares with the string.
mpesa_callback_status(result_code) ==
    IF result_code = JsonStr(0) THEN PAY_COMPLETED ELSE PAY_FAILED

Callback(checkout, result_code, transaction_id) ==
    [checkout |-> checkout, result_code |-> result_code,
     transaction_id |-> transaction_id]
NoCallback == Callback(NoCheckout, JsonInt(0), NoRef)

\* update_payment_status raises IntegrityError at its commit: the
\* provider_reference column is unique and another row holds this transaction id.
mpesa_callback_raises(checkout, result_code, transaction_id) ==
    /\ mpesa_callback_status(result_code) = PAY_COMPLETED
    /\ transaction_id # NoRef
    /\ \E p \in get_payment_by_checkout_request_id(checkout), q \in PayIds :
          /\ q # p
          /\ payments[q].exists
          /\ payments[q].provider_reference = transaction_id

mpesa_callback(checkout, result_code, transaction_id) ==
    /\ IF /\ mpesa_callback_code(checkout) = 200
          /\ ~mpesa_callback_raises(checkout, result_code, transaction_id)
       THEN /\ \E p \in get_payment_by_checkout_request_id(checkout) :
                 payments' = [payments EXCEPT ![p] =
                     IF mpesa_callback_status(result_code) = PAY_COMPLETED
                     THEN update_payment_status(@, PAY_COMPLETED, transaction_id, NoCheckout)
                     ELSE update_payment_status(@, PAY_FAILED, NoRef, NoCheckout)]
            /\ delivered' = [delivered EXCEPT !.mpesa_callback =
                   [p \in PayIds |->
                      IF p \in get_payment_by_checkout_request_id(checkout)
                      THEN Callback(checkout, result_code, transaction_id)
                      ELSE @[p]]]
       ELSE UNCHANGED <<payments, delivered>>
    /\ UNCHANGED <<jobVars, now, legacy, notifications, assignVars, calc>>

----------------------------------------------------------------------------
(* app/api/v1/endpoints/payments.py, on the payment columns of app.models.job *)

ACCEPTED == "accepted"
LEGACY_PENDING == "pending"
LEGACY_PAID == "paid"
LEGACY_FAILED == "failed"

\* A job of app.models.job as initiate_job_payment needs it: accepted, unpaid.
LegacyJob(client_id, cleaner_id) ==
    [exists |-> TRUE,
     client_id |-> client_id,
     cleaner_id |-> cleaner_id,
     status |-> ACCEPTED,
     payment_status |-> LEGACY_PENDING,
     mpesa_reference |-> NoCheckout]

\* services.mpesa.initiate_payment: raise_for_status, then the body as it came.
initiate_payment(answer, checkout) ==
    [raised |-> answer \in GatewayRaises,
     CheckoutRequestID |-> IF answer = "accepted" THEN checkout ELSE NoCheckout]

initiate_job_payment_code(j, user_id, answer) ==
    IF ~(legacy[j].exists /\ legacy[j].client_id = user_id /\ legacy[j].status = ACCEPTED)
    THEN 404
    ELSE IF legacy[j].payment_status # LEGACY_PENDING THEN 400
    ELSE IF initiate_payment(answer, NoCheckout).raised THEN 500
    ELSE 200

\* The checkout request ids of this path are told apart from the payments' ones.
LegacyCheckout(j) == MaxPayments + j
LegacyCheckoutIds == {LegacyCheckout(j) : j \in JobIds}

initiate_job_payment(j, user_id, answer) ==
    /\ IF initiate_job_payment_code(j, user_id, answer) = 200
       THEN legacy' = [legacy EXCEPT ![j].mpesa_reference =
                          initiate_payment(answer, LegacyCheckout(j)).CheckoutRequestID]
       ELSE UNCHANGED legacy
    /\ UNCHANGED <<jobVars, now, payments, notifications, delivered, assignVars, calc>>

\* handle_payment_callback_code with the request validation left out: the
\* missing id of a body is compared with the references of the jobs.
handle_payment_callback_code_unvalidated(checkout) ==
    IF \E j \in JobIds : legacy[j].exists /\ legacy[j].mpesa_reference = checkout
    THEN 200
    ELSE 404

\* PaymentCallback.CheckoutRequestID is a required str field: a body without it
\* is refused by the request validation (422) before the handler runs, and no
\* id of a body equals the NULL of a job that has no reference.
handle_payment_callback_code(checkout) ==
    IF checkout = NoCheckout THEN 422
    ELSE IF \E j \in JobIds : legacy[j].exists /\ legacy[j].mpesa_reference = checkout
    THEN 200
    ELSE 404

\* PaymentCallback.ResultCode is an int field: pydantic reads "0" as 0.
handle_payment_callback_status(result_code) ==
    IF result_code.value = 0 THEN LEGACY_PAID ELSE LEGACY_FAILED

Notification(user_id, title, j) == [user_id |-> user_id, title |-> title, job |-> j]
Titles == {"Payment Successful", "Payment Received", "Payment Failed"}
Notifications == {Notification(u, t, j) : u \in Users, t \in Titles, j \in JobIds}

\* The send_notification calls of one callback.
handle_payment_callback_notifications(j, result_code) ==
    IF handle_payment_callback_status(result_code) = LEGACY_PAID
    THEN {Notification(legacy[j].client_id, "Payment Successful", j),
          Notification(legacy[j].cleaner_id, "Payment Received", j)}
    ELSE {Notification(legacy[j].client_id, "Payment Failed", j)}

handle_payment_callback(checkout, result_code) ==
    /\ IF handle_payment_callback_code(checkout) = 200
       THEN \E j \in JobIds :
              /\ legacy[j].exists /\ legacy[j].mpesa_reference = checkout
              /\ \A k \in JobIds :
                    (legacy[k].exists /\ legacy[k].mpesa_reference = checkout) => j <= k
              /\ \A n \in handle_payment_callback_notifications(j, result_code) :
                    notifications[n] < MaxNotifications
              /\ legacy' = [legacy EXCEPT ![j].payment_status =
                                handle_payment_callback_status(result_code)]
              /\ notifications' =
                    [n \in Notifications |->
                       IF n \in handle_payment_callback_notifications(j, result_code)
                       THEN notifications[n] + 1
                       ELSE notifications[n]]
              /\ delivered' = [delivered EXCEPT !.handle_payment_callback[j] =
                                   Callback(checkout, result_code, NoRef)]
       ELSE UNCHANGED <<legacy, notifications, delivered>>
    /\ UNCHANGED <<jobVars, now, payments, assignVars, calc>>

----------------------------------------------------------------------------
(* app/features/jobs/service.py: JobService.assign_cleaner, one session per   *)
(* request; a request yields at each await, between its read and its commit. *)

FeatureJob(client_id) ==
    [exists |-> TRUE,
     client_id |-> client_id,
     cleaner_id |-> NoUser,
     status |-> PENDING,
     start_time |-> NoValue]

Idle == [pc |-> "idle"]

\* get_job, then the checks on the row as this session loaded it.
assign_cleaner_code(row) ==
    IF ~row.exists THEN 404
    ELSE IF row.status # PENDING THEN 400
    ELSE IF row.cleaner_id # NoUser THEN 400
    ELSE 200

assign_cleaner_read(r, j, cleaner_id) ==
    /\ req[r].pc = "idle"
    /\ req' = [req EXCEPT ![r] =
                 [pc |-> IF assign_cleaner_code(fjobs[j]) = 200 THEN "loaded" ELSE "failed",
                  job |-> j,
                  cleaner_id |-> cleaner_id,
                  code |-> assign_cleaner_code(fjobs[j])]]
    /\ UNCHANGED <<jobVars, now, payVars, fjobs, sessions, calc>>

\* db.commit(): the session's UPDATE of the columns it set, whatever the row holds now.
assign_cleaner_commit(r) ==
    /\ req[r].pc = "loaded"
    /\ fjobs' = [fjobs EXCEPT ![req[r].job].cleaner_id = req[r].cleaner_id,
                              ![req[r].job].status = ACCEPTED]
    /\ req' = [req EXCEPT ![r].pc = "succeeded"]
    /\ UNCHANGED <<jobVars, now, payVars, sessions, calc>>

----------------------------------------------------------------------------
(* app/features/jobs: JobService.start_job and complete_job with the         *)
(* TimeTrackingManager. The TimeTracker the manager drives keeps one session *)
(* per job: none, then RUNNING, then STOPPED.                                *)

NoSession == "none"
RUNNING == "running"
STOPPED == "stopped"

\* check_concurrent_jobs left out: no job of the cleaner stops a start.
check_concurrent_jobs_skipped(cleaner_id) == "ok"

\* TimeTrackingManager.check_concurrent_jobs: the name `select` it calls is the
\* standard library module the file imports, so the call raises TypeError
\* before any query is made.
check_concurrent_jobs(cleaner_id) == "TypeError"

\* TimeTrackingManager.start_tracking reaches time_tracker.start_tracking: the
\* validations and the concurrency check went through.
start_tracking_opens(j, in_business_hours, on_schedule) ==
    /\ in_business_hours
    /\ on_schedule
    /\ check_concurrent_jobs(fjobs[j].cleaner_id) = "ok"

\* TimeTrackingManager.start_tracking: BusinessLogicError is a 400, any other
\* exception, the notification's included, a 500.
start_tracking_code(j, in_business_hours, on_schedule, notified) ==
    IF ~in_business_hours THEN 400
    ELSE IF ~on_schedule THEN 400
    ELSE IF check_concurrent_jobs(fjobs[j].cleaner_id) = "BusinessLogicError" THEN 400
    ELSE IF check_concurrent_jobs(fjobs[j].cleaner_id) = "TypeError" THEN 500
    ELSE IF ~notified THEN 500
    ELSE 200

features_start_job_code(j, in_business_hours, on_schedule, notified) ==
    IF ~fjobs[j].exists THEN 404
    ELSE IF fjobs[j].status # ACCEPTED THEN 400
    ELSE start_tracking_code(j, in_business_hours, on_schedule, notified)

\* What JobService.start_job (features) writes: the session is opened inside
\* start_tracking, the status and the start time written after it returned.
features_start_job_writes(j, in_business_hours, on_schedule, notified) ==
    /\ sessions' =
           IF /\ fjobs[j].exists
              /\ fjobs[j].status = ACCEPTED
              /\ start_tracking_opens(j, in_business_hours, on_schedule)
           THEN [sessions EXCEPT ![j] = RUNNING]
           ELSE sessions
    /\ fjobs' =
           IF features_start_job_code(j, in_business_hours, on_schedule, notified) = 200
           THEN [fjobs EXCEPT ![j].status = IN_PROGRESS, ![j].start_time = now]
           ELSE fjobs

features_start_job(j, in_business_hours, on_schedule, notified) ==
    /\ features_start_job_writes(j, in_business_hours, on_schedule, notified)
    /\ UNCHANGED <<jobVars, now, payVars, req, calc>>

\* TimeTrackingManager.stop_tracking: the tracker refuses a job without a
\* running session (ValidationError, 400); a failed notification is a 500.
stop_tracking_code(j, notified) ==
    IF sessions[j] # RUNNING THEN 400
    ELSE IF ~notified THEN 500
    ELSE 200

features_complete_job_code(j, notified) ==
    IF ~fjobs[j].exists THEN 404
    ELSE IF fjobs[j].status # IN_PROGRESS THEN 400
    ELSE stop_tracking_code(j, notified)

\* JobService.complete_job (features): the session is stopped inside
\* stop_tracking, the status written after it returned.
features_complete_job(j, notified) ==
    /\ sessions' =
           IF fjobs[j].exists /\ fjobs[j].status = IN_PROGRESS /\ sessions[j] = RUNNING
           THEN [sessions EXCEPT ![j] = STOPPED]
           ELSE sessions
    /\ fjobs' =
           IF features_complete_job_code(j, notified) = 200
           THEN [fjobs EXCEPT ![j].status = COMPLETED]
           ELSE fjobs
    /\ UNCHANGED <<jobVars, now, payVars, req, calc>>

----------------------------------------------------------------------------
(* The job lifecycle service, its requests handled one after the other *)

NoneDelivered ==
    [mpesa_callback |-> [p \in PayIds |-> NoCallback],
     handle_payment_callback |-> [j \in JobIds |-> NoCallback]]

NoCalc == [fn |-> "none"]

InitIdle ==
    /\ now = 0
    /\ calc = NoCalc

InitNoJobs ==
    /\ jobs = [j \in JobIds |-> NoRow]
    /\ slots = [s \in SlotIds |-> NoRow]

InitNoPayments ==
    /\ payments = [p \in PayIds |-> NoRow]
    /\ legacy = [j \in JobIds |-> NoRow]
    /\ notifications = [n \in Notifications |-> 0]
    /\ delivered = NoneDelivered

InitNoAssign ==
    /\ fjobs = [j \in JobIds |-> NoRow]
    /\ req = [r \in ReqIds |-> Idle]
    /\ sessions = [j \in JobIds |-> NoSession]

Init == InitIdle /\ InitNoJobs /\ InitNoPayments /\ InitNoAssign

Next ==
    \/ \E c \in Clients, d \in Durations : create_job(c, d)
    \/ \E j \in JobIds, s \in TimeGrid, e \in SlotEnds, a \in BOOLEAN, b \in ProposedBy :
         propose_schedule_slot(j, s, e, a, b)
    \/ \E j \in JobIds, s \in SlotIds, u \in Users, c \in Cleaners :
         accept_schedule_slot(j, s, u, c)
    \/ \E j \in JobIds, c \in Cleaners : start_job(j, c)
    \/ \E j \in JobIds, c \in Cleaners, a \in ActualDurations : complete_job(j, c, a)
    \/ \E j \in JobIds : mark_job_paid(j)
    \/ \E j \in JobIds, u \in Users, b \in BOOLEAN : cancel_job(j, u, b)
    \/ Tick

Spec == Init /\ [][Next]_vars

----------------------------------------------------------------------------
(* The payment handlers, over jobs the lifecycle service has brought to any   *)
(* of its statuses                                                            *)

\* A job as the lifecycle service leaves it in status `status`.
JobIn(status) ==
    LET fresh == Job("client1", 30)
        scheduled == [fresh EXCEPT !.cleaner_id = "cleaner1", !.status = SCHEDULED,
                                   !.scheduled_for = 0]
        started == [scheduled EXCEPT !.status = IN_PROGRESS, !.started_at = 0]
        completed == [started EXCEPT !.status = COMPLETED, !.completed_at = 0,
                                     !.actual_duration_minutes = 30,
                                     !.final_cost = fresh.base_cost]
    IN  CASE status = PENDING -> fresh
          [] status = SCHEDULED -> scheduled
          [] status = IN_PROGRESS -> started
          [] status = COMPLETED -> completed
          [] status = PAID -> [completed EXCEPT !.status = PAID]
          [] status = CANCELED -> [fresh EXCEPT !.status = CANCELED]

\* The first job in any status, the others completed and unpaid.
InitPay ==
    /\ InitIdle
    /\ jobs \in {[j \in JobIds |-> IF j = 1 THEN JobIn(st) ELSE JobIn(COMPLETED)] :
                    st \in JobStatus}
    /\ slots = [s \in SlotIds |-> NoRow]
    /\ InitNoPayments
    /\ InitNoAssign

NextPay ==
    \/ \E j \in JobIds, u \in Users, a \in GatewayAnswers : initiate_mpesa_payment(j, u, a)
    \/ \E c \in CheckoutIds, rc \in ResultCodes, t \in TransactionIds :
         mpesa_callback(c, rc, t)
    \/ Tick

SpecPay == InitPay /\ [][NextPay]_vars

----------------------------------------------------------------------------
(* The payment handlers of the v1 endpoints, over accepted, unpaid jobs *)

InitLegacyPay ==
    /\ InitIdle
    /\ InitNoJobs
    /\ payments = [p \in PayIds |-> NoRow]
    /\ legacy = [j \in JobIds |-> LegacyJob("client1", "cleaner1")]
    /\ notifications = [n \in Notifications |-> 0]
    /\ delivered = NoneDelivered
    /\ InitNoAssign

NextLegacyPay ==
    \/ \E j \in JobIds, u \in Users, a \in GatewayAnswers : initiate_job_payment(j, u, a)
    \/ \E c \in LegacyCheckoutIds \cup {NoCheckout}, rc \in ResultCodes :
         handle_payment_callback(c, rc)

SpecLegacyPay == InitLegacyPay /\ [][NextLegacyPay]_vars

----------------------------------------------------------------------------
(* Concurrent assign requests on jobs of the features service *)

InitAssign ==
    /\ InitIdle
    /\ InitNoJobs
    /\ InitNoPayments
    /\ fjobs = [j \in JobIds |-> FeatureJob("client1")]
    /\ req = [r \in ReqIds |-> Idle]
    /\ sessions = [j \in JobIds |-> NoSession]

NextAssign ==
    \/ \E r \in ReqIds, j \in JobIds, c \in Cleaners : assign_cleaner_read(r, j, c)
    \/ \E r \in ReqIds : assign_cleaner_commit(r)
    \/ \E j \in JobIds, h \in BOOLEAN, s \in BOOLEAN, n \in BOOLEAN :
         features_start_job(j, h, s, n)
    \/ \E j \in JobIds, n \in BOOLEAN : features_complete_job(j, n)

SpecAssign == InitAssign /\ [][NextAssign]_vars

----------------------------------------------------------------------------
(* Properties of the job lifecycle service (Spec) *)

JobEdges ==
    {<<PENDING, SCHEDULED>>, <<SCHEDULED, IN_PROGRESS>>, <<IN_PROGRESS, COMPLETED>>,
     <<COMPLETED, PAID>>, <<PENDING, CANCELED>>, <<SCHEDULED, CANCELED>>,
     <<IN_PROGRESS, CANCELED>>}

\* C1: whatever accept_schedule_slot, start_job, complete_job, mark_job_paid and
\* cancel_job do to a job, they change its row only along an edge of the status
\* graph PENDING -> SCHEDULED -> IN_PROGRESS -> COMPLETED -> PAID,
\* {PENDING, SCHEDULED, IN_PROGRESS} -> CANCELED; a request made in any other
\* status leaves every field of the job as it was.
StatusFollowsEdges ==
    [][\A j \in JobIds :
         (jobs[j].exists /\ jobs'[j] # jobs[j])
             => <<jobs[j].status, jobs'[j].status>> \in JobEdges]_vars

\* C2: mark_job_paid on a job that is already PAID answers with success.
MarkPaidIdempotent ==
    \A j \in JobIds :
        (jobs[j].exists /\ jobs[j].status = PAID) => mark_job_paid_code(j) = 200

\* The window [start, start + duration) of a job with a scheduled time.
WindowsOverlap(a, b) ==
    /\ a.scheduled_for < b.scheduled_for + b.estimated_duration_minutes
    /\ b.scheduled_for < a.scheduled_for + a.estimated_duration_minutes

Committed(j) == jobs[j].exists /\ jobs[j].status \in {SCHEDULED, IN_PROGRESS}

\* C6: no two SCHEDULED or IN_PROGRESS jobs of one cleaner have overlapping
\* windows [start, start + duration).
NoOverlappingCommitments ==
    \A j1 \in JobIds, j2 \in JobIds :
        (j1 # j2 /\ Committed(j1) /\ Committed(j2)
               /\ jobs[j1].cleaner_id = jobs[j2].cleaner_id)
            => ~WindowsOverlap(jobs[j1], jobs[j2])

AcceptedSlots(j) ==
    {s \in SlotIds : slots[s].exists /\ slots[s].job_id = j
                        /\ slots[s].is_accepted = SlotAccepted}

\* C8: each job has at most one accepted schedule slot.
AtMostOneAcceptedSlot ==
    \A j \in JobIds : Cardinality(AcceptedSlots(j)) <= 1

\* C9: a job has a cleaner if and only if its status is SCHEDULED, IN_PROGRESS,
\* COMPLETED or PAID.
CleanerIffAssigned ==
    \A j \in JobIds :
        jobs[j].exists =>
            (jobs[j].cleaner_id # NoUser
                <=> jobs[j].status \in {SCHEDULED, IN_PROGRESS, COMPLETED, PAID})

\* C10: a cleaner never has two jobs in progress at the same time.
OneJobInProgressPerCleaner ==
    \A j1 \in JobIds, j2 \in JobIds :
        (j1 # j2 /\ jobs[j1].exists /\ jobs[j2].exists
               /\ jobs[j1].status = IN_PROGRESS /\ jobs[j2].status = IN_PROGRESS)
            => jobs[j1].cleaner_id # jobs[j2].cleaner_id

----------------------------------------------------------------------------
(* Properties of the payment handlers (SpecPay) *)

\* The callback was the last one handled for the payment it names.
AlreadyDelivered(checkout, result_code, transaction_id) ==
    \E p \in get_payment_by_checkout_request_id(checkout) :
        delivered.mpesa_callback[p] = Callback(checkout, result_code, transaction_id)

\* C3: handling a gateway callback a second time changes nothing: the payment's
\* status, provider reference and completion time, the jobs and the
\* notifications sent stay as the first delivery left them.
DuplicateCallbackChangesNothing ==
    [][\A c \in CheckoutIds, rc \in ResultCodes, t \in TransactionIds :
         (AlreadyDelivered(c, rc, t) /\ mpesa_callback(c, rc, t))
             => UNCHANGED <<payments, jobs, notifications>>]_vars

\* C4: a success callback (result code 0) for a PROCESSING payment of a
\* COMPLETED job leaves the payment COMPLETED and the job PAID.
SuccessCallbackPaysJob ==
    [][\A p \in PayIds, rc \in ResultCodes, t \in TransactionIds :
         (/\ payments[p].exists
          /\ payments[p].status = PAY_PROCESSING
          /\ jobs[payments[p].job_id].status = COMPLETED
          /\ rc.value = 0
          /\ mpesa_callback(payments[p].checkout_request_id, rc, t))
             => /\ payments'[p].status = PAY_COMPLETED
                /\ jobs'[payments[p].job_id].status = PAID]_vars

PaymentEdges ==
    {<<PAY_PENDING, PAY_PROCESSING>>, <<PAY_PROCESSING, PAY_COMPLETED>>,
     <<PAY_PROCESSING, PAY_FAILED>>, <<PAY_PENDING, PAY_FAILED>>,
     <<PAY_COMPLETED, PAY_REFUNDED>>}

\* C5: a payment's status changes only along PENDING -> PROCESSING,
\* PROCESSING -> COMPLETED, PROCESSING -> FAILED, PENDING -> FAILED and
\* COMPLETED -> REFUNDED.
PaymentStatusMovesForward ==
    [][\A p \in PayIds :
         (payments[p].exists /\ payments'[p].status # payments[p].status)
             => <<payments[p].status, payments'[p].status>> \in PaymentEdges]_vars

----------------------------------------------------------------------------
(* Properties of concurrent assign requests (SpecAssign) *)

\* C7: of the assign requests made for one job, at most one succeeds.
AtMostOneAssignSucceeds ==
    \A r1 \in ReqIds, r2 \in ReqIds :
        (r1 # r2 /\ req[r1].pc = "succeeded" /\ req[r2].pc = "succeeded")
            => req[r1].job # req[r2].job

----------------------------------------------------------------------------
(* Properties of payment initiation (SpecPay) *)

\* C11: when the gateway charge request fails in any way (transport failure,
\* timeout, status other than 200, non-zero response code, response without a
\* checkout request id), the payment just created ends FAILED, on the
\* processor's path and on PaymentService.initiate_mpesa_payment, and the
\* caller gets the payment-processing error.
GatewayFailureFailsPayment ==
    [][\A j \in JobIds, u \in Users, a \in GatewayAnswers \ {"accepted"} :
         initiate_mpesa_payment(j, u, a) =>
             \A p \in PayIds :
                 (~payments[p].exists /\ payments'[p].exists) =>
                     /\ payments'[p].status = PAY_FAILED
                     /\ initiate_mpesa_payment_code(j, u, a) = 502
                     /\ PaymentService_initiate_mpesa_payment(Payment(j, u), p, a).status
                            = PAY_FAILED]_vars

\* C12: a payment is created, and the charge request sent, only for a job
\* that is COMPLETED and by the job's client; for a job in any other status
\* initiation creates no payment.
InitiationOnlyForCompletedJobs ==
    [][\A p \in PayIds :
         (~payments[p].exists /\ payments'[p].exists) =>
             /\ jobs[payments'[p].job_id].status = COMPLETED
             /\ jobs[payments'[p].job_id].client_id = payments'[p].user_id]_vars

----------------------------------------------------------------------------
(* Properties of the features job service with time tracking (SpecAssign) *)

\* The cleaner of job j has no other job in progress.
NoOtherActiveJob(j) ==
    \A k \in JobIds \ {j} :
        ~(fjobs[k].exists /\ fjobs[k].status = IN_PROGRESS
             /\ fjobs[k].cleaner_id = fjobs[j].cleaner_id)

\* C13: a notification that cannot be delivered does not stop a start or a
\* completion whose other preconditions hold (the request succeeds and the job
\* moves to IN_PROGRESS, respectively COMPLETED), and a job's session and
\* status agree: a RUNNING session means IN_PROGRESS, a STOPPED one COMPLETED.
NotificationFailureKeepsTransition ==
    \A j \in JobIds :
        fjobs[j].exists =>
            /\ (fjobs[j].status = ACCEPTED /\ NoOtherActiveJob(j))
                   => features_start_job_code(j, TRUE, TRUE, FALSE) = 200
            /\ (fjobs[j].status = IN_PROGRESS /\ sessions[j] = RUNNING)
                   => features_complete_job_code(j, FALSE) = 200
            /\ sessions[j] = RUNNING => fjobs[j].status = IN_PROGRESS
            /\ sessions[j] = STOPPED => fjobs[j].status = COMPLETED

----------------------------------------------------------------------------
(* JobService._calculate_final_cost as a function of its arguments: a call   *)
(* with arguments drawn from the sets below, then its result. Costs are in   *)
(* cents: 100000 is 1000.00, 54000 the base cost of 120 minutes at 4.50.     *)

BaseCosts == {13500, 27000, 54000, 100000}
EstimatedMinutes == {30, 60, 120}
ActualMinutes == {0, 30, 90, 120, 150}

InitCost ==
    /\ now = 0
    /\ InitNoJobs
    /\ InitNoPayments
    /\ InitNoAssign
    /\ calc \in [fn : {"_calculate_final_cost"}, base_cost : BaseCosts,
                 actual_minutes : ActualMinutes, estimated_minutes : EstimatedMinutes,
                 result : {NoValue}]

CalculateFinalCost ==
    /\ calc.result = NoValue
    /\ calc' = [calc EXCEPT !.result =
                   _calculate_final_cost(calc.base_cost, calc.actual_minutes,
                                         calc.estimated_minutes)]
    /\ UNCHANGED <<jobVars, now, payVars, assignVars>>

NextCost == CalculateFinalCost

SpecCost == InitCost /\ [][NextCost]_vars

\* C14: the final cost is the base cost when the job took no longer than
\* estimated, and otherwise the base cost plus the extra minutes charged at 1.2
\* times the rate the base cost was computed with, base_cost / estimated_minutes
\* (written without the division: extra_cost * estimated * 10 = extra * base * 12);
\* so the final cost of (1000, 120 estimated, 150 actual) is 1300.
FinalCostAtJobRate ==
    calc.result # NoValue =>
        IF calc.actual_minutes <= calc.estimated_minutes
        THEN calc.result = calc.base_cost
        ELSE (calc.result - calc.base_cost) * calc.estimated_minutes * 10
                 = (calc.actual_minutes - calc.estimated_minutes) * calc.base_cost * 12

----------------------------------------------------------------------------
(* app/services/matching.py: JobMatchingService, on the jobs and users of    *)
(* app.models. Hourly rates are in hundreds of shillings. A score is kept as *)
(* the numerator of a fraction whose denominator, ScoreDenominator, is the   *)
(* same for every cleaner of one job, so that scores of one job compare as   *)
(* their numerators do.                                                      *)

min(a, b) == IF a <= b THEN a ELSE b
max(a, b) == IF a >= b THEN a ELSE b

\* average_rating, total_jobs and completed_jobs default to 0; hourly_rate is
\* nullable. total_jobs divides 100 so that the success rate has an exact
\* numerator over 1000.
Ratings == {0, 1, 3, 5}
CompletedJobs == {0, 1, 50, 100}
TotalJobs == {0, 1, 100}
HourlyRates == {NoValue, 3, 4, 5, 6, 7}
RatesPerHour == {4, 5}

\* 0.7 + rating_score * 0.3, over 50; 1 when the rating is falsy.
rating_factor(cleaner) ==
    IF cleaner.average_rating # 0
    THEN 35 + 3 * min(cleaner.average_rating, 5)
    ELSE 50

\* 0.8 + experience_score * 0.2, over 500; 1 when completed_jobs is falsy.
experience_factor(cleaner) ==
    IF cleaner.completed_jobs # 0
    THEN 400 + min(cleaner.completed_jobs, 100)
    ELSE 500

\* 0.8 + price_score * 0.2, over 5 * rate_per_hour; 1 when hourly_rate is falsy.
price_factor(job, cleaner) ==
    IF cleaner.hourly_rate # NoValue /\ cleaner.hourly_rate # 0
    THEN 4 * job.rate_per_hour
           + max(job.rate_per_hour - Abs(job.rate_per_hour - cleaner.hourly_rate), 0)
    ELSE 5 * job.rate_per_hour

\* 0.7 + success_rate * 0.3, over 1000; 1 when total_jobs is 0.
success_factor(cleaner) ==
    IF cleaner.total_jobs > 0
    THEN (7 * cleaner.total_jobs + 3 * cleaner.completed_jobs) * (100 \div cleaner.total_jobs)
    ELSE 1000

ScoreDenominator(job) == 50 * 500 * (5 * job.rate_per_hour) * 1000

_calculate_match_score(job, cleaner) ==
    rating_factor(cleaner) * experience_factor(cleaner) * price_factor(job, cleaner)
        * success_factor(cleaner)

\* The profile columns of a cleaner that the score reads.
Profiles ==
    {c \in [average_rating : Ratings, completed_jobs : CompletedJobs,
            total_jobs : TotalJobs, hourly_rate : HourlyRates] :
        c.completed_jobs <= c.total_jobs}

\* Two cleaners that differ in one column only, the second with the higher value.
ScoreCalls ==
    {c \in [fn : {"_calculate_match_score"}, rate_per_hour : RatesPerHour,
            cleaner : Profiles, other : Profiles, score : {NoValue},
            other_score : {NoValue}] :
        \/ /\ c.other.average_rating > c.cleaner.average_rating
           /\ c.other = [c.cleaner EXCEPT !.average_rating = c.other.average_rating]
        \/ /\ c.other.completed_jobs > c.cleaner.completed_jobs
           /\ c.other = [c.cleaner EXCEPT !.completed_jobs = c.other.completed_jobs]}

\* One cleaner of any profile: completed_jobs and total_jobs are two columns
\* that nothing ties together, so the first may exceed the second (here by at
\* most its double, which keeps the numerators within the checker's integers).
RangeCalls ==
    {c \in [fn : {"_calculate_match_score"}, rate_per_hour : RatesPerHour,
            cleaner : [average_rating : Ratings, completed_jobs : CompletedJobs,
                       total_jobs : TotalJobs \cup {50}, hourly_rate : HourlyRates],
            other : [average_rating : Ratings, completed_jobs : CompletedJobs,
                     total_jobs : TotalJobs \cup {50}, hourly_rate : HourlyRates],
            score : {NoValue}, other_score : {NoValue}] :
        /\ c.other = c.cleaner
        /\ c.cleaner.completed_jobs <= 2 * c.cleaner.total_jobs \/ c.cleaner.total_jobs = 0}

CalculateMatchScore ==
    /\ calc.fn = "_calculate_match_score"
    /\ calc.score = NoValue
    /\ calc' = [calc EXCEPT
                  !.score = _calculate_match_score(calc, calc.cleaner),
                  !.other_score = _calculate_match_score(calc, calc.other)]
    /\ UNCHANGED <<jobVars, now, payVars, assignVars>>

\* A window of a job of app.models.job: scheduled_at and duration_hours, in hours.
Window(scheduled_at, duration_hours) ==
    [scheduled_at |-> scheduled_at, duration_hours |-> duration_hours]

\* The job to match: pending or already accepted, from 2 to 6.
MatchJobs ==
    [exists : {TRUE}, status : {PENDING, ACCEPTED}, rate_per_hour : RatesPerHour,
     scheduled_at : {2}, duration_hours : {4}]

MaxCleaners == 2
CleanerIds == 1..MaxCleaners
MaxMatches == 2

\* The active, verified cleaners of the users table, each with the windows of
\* the ACCEPTED and IN_PROGRESS jobs assigned to them.
MatchUsers ==
    [CleanerIds ->
        {u \in [average_rating : Ratings, completed_jobs : {0, 100}, total_jobs : {100},
                hourly_rate : {NoValue, 4, 7}, jobs : {{}, {Window(3, 1)}}] :
            u.average_rating # 1}]

NoError == "none"
TypeError == "TypeError"
Returned(value) == [raised |-> NoError, value |-> value]
Raised(error) == [raised |-> error, value |-> <<>>]

FindCalls ==
    [fn : {"find_matches_for_job"}, job : MatchJobs, users : MatchUsers,
     max_matches : 1..MaxMatches, done : {FALSE}, result : {Returned(<<>>)}]

\* JobMatchingService.find_matches_for_job: [] for a job that is not PENDING;
\* for a pending one the busy_cleaners subquery is built with
\* float(Job.duration_hours), float() of the mapped column, which raises
\* TypeError before any query runs.
find_matches_for_job(job, users, max_matches) ==
    IF ~job.exists \/ job.status # PENDING
    THEN Returned(<<>>)
    ELSE Raised(TypeError)

FindMatchesForJob ==
    /\ calc.fn = "find_matches_for_job"
    /\ ~calc.done
    /\ calc' = [calc EXCEPT
                  !.done = TRUE,
                  !.result = find_matches_for_job(calc.job, calc.users, calc.max_matches)]
    /\ UNCHANGED <<jobVars, now, payVars, assignVars>>

\* JobMatchingService._has_time_conflict: the closed windows of the job and of
\* some busy job meet.
_has_time_conflict(job, busy_times) ==
    \E busy \in busy_times :
        /\ job.scheduled_at <= busy.scheduled_at + busy.duration_hours
        /\ job.scheduled_at + job.duration_hours >= busy.scheduled_at

\* The jobs table as suggest_jobs_for_cleaner reads it: two hours long, before,
\* inside and after the cleaner's busy window.
SuggestJobs ==
    [JobIds -> [status : {PENDING, ACCEPTED}, rate_per_hour : RatesPerHour,
                scheduled_at : {0, 3, 5}, duration_hours : {2}]]

\* The cleaner asking for suggestions, with the windows of the ACCEPTED and
\* IN_PROGRESS jobs assigned to them.
SuggestCleaners ==
    [average_rating : {3}, completed_jobs : {0, 50}, total_jobs : {100},
     hourly_rate : {NoValue, 4, 5}, jobs : {{}, {Window(2, 2)}}]

\* The order in which query.all() yields the rows (the query has no ORDER BY).
RowOrders ==
    {rows \in [JobIds -> JobIds] : \A i, k \in JobIds : rows[i] = rows[k] => i = k}

SuggestCalls ==
    [fn : {"suggest_jobs_for_cleaner"}, cleaner : SuggestCleaners, jobs : SuggestJobs,
     rows : RowOrders, max_suggestions : 1..MaxMatches, done : {FALSE},
     result : {Returned(<<>>)}]

\* list.sort(key=score, reverse=True) of the job ids in `available`: by
\* descending score, jobs of one score in the order they had (the sort is
\* stable). Scores of two jobs are fractions over their own ScoreDenominator and
\* compare by cross-multiplication with the jobs' rates.
sort_by_score(available, table, cleaner) ==
    LET score(j) == _calculate_match_score(table[j], cleaner)
        position(j) == CHOOSE i \in 1..Len(available) : available[i] = j
        higher(a, b) == score(a) * table[b].rate_per_hour > score(b) * table[a].rate_per_hour
        same(a, b) == score(a) * table[b].rate_per_hour = score(b) * table[a].rate_per_hour
        ids == {available[i] : i \in 1..Len(available)}
    IN  CHOOSE sorted \in [1..Len(available) -> ids] :
            \A i, k \in 1..Len(available) :
                i < k => \/ higher(sorted[i], sorted[k])
                         \/ /\ same(sorted[i], sorted[k])
                            /\ position(sorted[i]) < position(sorted[k])

\* JobMatchingService.suggest_jobs_for_cleaner: float(cleaner.hourly_rate) raises
\* TypeError for a cleaner without a rate; otherwise the PENDING jobs whose rate
\* is within 20% of the cleaner's rate and that have no _has_time_conflict with
\* the cleaner's busy jobs, by descending score, the first max_suggestions.
suggest_jobs_for_cleaner(cleaner, table, rows, max_suggestions) ==
    IF cleaner.hourly_rate = NoValue
    THEN Raised(TypeError)
    ELSE LET in_query(j) ==
                 /\ table[j].status = PENDING
                 /\ 10 * table[j].rate_per_hour >= 8 * cleaner.hourly_rate
                 /\ 10 * table[j].rate_per_hour <= 12 * cleaner.hourly_rate
             query == SelectSeq(rows, in_query)
             is_free(j) == ~_has_time_conflict(table[j], cleaner.jobs)
             available == SelectSeq(query, is_free)
             sorted == sort_by_score(available, table, cleaner)
             available_jobs ==
                 [i \in 1..Len(available) |->
                     <<sorted[i], _calculate_match_score(table[sorted[i]], cleaner)>>]
         IN  Returned(SubSeq(available_jobs, 1, min(max_suggestions, Len(available))))

SuggestJobsForCleaner ==
    /\ calc.fn = "suggest_jobs_for_cleaner"
    /\ ~calc.done
    /\ calc' = [calc EXCEPT
                  !.done = TRUE,
                  !.result = suggest_jobs_for_cleaner(calc.cleaner, calc.jobs, calc.rows,
                                                      calc.max_suggestions)]
    /\ UNCHANGED <<jobVars, now, payVars, assignVars>>

InitMatch ==
    /\ now = 0
    /\ InitNoJobs
    /\ InitNoPayments
    /\ InitNoAssign
    /\ calc \in ScoreCalls \cup RangeCalls \cup FindCalls \cup SuggestCalls

NextMatch ==
    \/ CalculateMatchScore
    \/ FindMatchesForJob
    \/ SuggestJobsForCleaner

SpecMatch == InitMatch /\ [][NextMatch]_vars

\* C15: of two cleaners that differ only in their average rating, or only in
\* their completed-job count, the one with the higher value never gets the
\* lower match score; the values 0 and unset (the columns' default) included.
ScoreMonotone ==
    (calc.fn = "_calculate_match_score" /\ calc.score # NoValue)
        => calc.other_score >= calc.score

\* The cleaner's hourly rate lies within 20% of the job's rate.
WithinRateBand(job, cleaner) ==
    /\ cleaner.hourly_rate # NoValue
    /\ 10 * cleaner.hourly_rate >= 8 * job.rate_per_hour
    /\ 10 * cleaner.hourly_rate <= 12 * job.rate_per_hour

\* The half-open windows [scheduled_at, scheduled_at + duration_hours) intersect.
Intersects(a, b) ==
    /\ a.scheduled_at < b.scheduled_at + b.duration_hours
    /\ b.scheduled_at < a.scheduled_at + a.duration_hours

\* The candidates of a job: in the rate band and free over the job's window.
Eligible(job, users) ==
    {c \in DOMAIN users :
        /\ WithinRateBand(job, users[c])
        /\ \A w \in users[c].jobs : ~Intersects(w, job)}

\* C16: for a pending job, find_matches_for_job returns a list of at most
\* max_matches (cleaner, score) pairs, by descending score, that are eligible
\* cleaners with their scores, as many as the limit allows, and no eligible
\* cleaner left out scores strictly higher than a returned one.
FindMatchesReturnsTopScores ==
    (calc.fn = "find_matches_for_job" /\ calc.done /\ calc.job.status = PENDING) =>
        LET matches == calc.result.value
            eligible == Eligible(calc.job, calc.users)
            score(c) == _calculate_match_score(calc.job, calc.users[c])
            returned == {matches[i][1] : i \in 1..Len(matches)}
        IN  /\ calc.result.raised = NoError
            /\ Len(matches) = min(calc.max_matches, Cardinality(eligible))
            /\ \A i \in 1..Len(matches) :
                   /\ matches[i][1] \in eligible
                   /\ matches[i][2] = score(matches[i][1])
            /\ \A i \in 1..Len(matches), k \in 1..Len(matches) :
                   i < k => matches[i][2] >= matches[k][2] /\ matches[i][1] # matches[k][1]
            /\ \A c \in eligible \ returned, d \in returned : score(c) <= score(d)

\* C17: every cleaner returned by find_matches_for_job has an hourly rate within
\* 20% of the job's rate and no ACCEPTED or IN_PROGRESS job whose window
\* intersects the job's window; every job returned by suggest_jobs_for_cleaner
\* is PENDING, has the cleaner's rate within 20% of its own, and does not
\* intersect a job the cleaner is committed to.
ReturnedMatchesAreInBandAndFree ==
    /\ (calc.fn = "find_matches_for_job" /\ calc.done) =>
           \A i \in 1..Len(calc.result.value) :
               LET cleaner == calc.users[calc.result.value[i][1]]
               IN  /\ WithinRateBand(calc.job, cleaner)
                   /\ \A w \in cleaner.jobs : ~Intersects(w, calc.job)
    /\ (calc.fn = "suggest_jobs_for_cleaner" /\ calc.done) =>
           \A i \in 1..Len(calc.result.value) :
               LET job == calc.jobs[calc.result.value[i][1]]
               IN  /\ job.status = PENDING
                   /\ WithinRateBand(job, calc.cleaner)
                   /\ \A w \in calc.cleaner.jobs : ~Intersects(w, job)

----------------------------------------------------------------------------
(* The two conflict checks: validate_cleaner_availability of                 *)
(* app/features/jobs/permissions.py (times in minutes) and                   *)
(* JobMatchingService._has_time_conflict (times in hours).                   *)

\* timedelta(days=1), in minutes.
MinutesPerDay == 1440

\* scheduled_time.replace(hour=0, minute=0, second=0, microsecond=0)
day_start(scheduled_time) == scheduled_time - (scheduled_time % MinutesPerDay)

\* Jobs of the cleaner in the jobs table: late on the first day and early on
\* the second, one or two hours long.
ScheduledTimes == {1320, 1380, 1440, 1500, 1560}
EstimatedDurations == {60, 120}
CleanerJobs ==
    [status : {PENDING, ACCEPTED, IN_PROGRESS, COMPLETED},
     scheduled_time : ScheduledTimes, estimated_duration : EstimatedDurations]

\* validate_cleaner_availability: TRUE when the cleaner is available. Only the
\* cleaner's ACCEPTED and IN_PROGRESS jobs scheduled on the calendar day of
\* scheduled_time are compared.
validate_cleaner_availability(existing, scheduled_time, estimated_duration) ==
    LET day_end == day_start(scheduled_time) + MinutesPerDay
        selected == {e \in existing :
                        /\ e.scheduled_time >= day_start(scheduled_time)
                        /\ e.scheduled_time < day_end
                        /\ e.status \in {ACCEPTED, IN_PROGRESS}}
        job_end_time == scheduled_time + estimated_duration
        conflicts(existing_job) ==
            LET existing_end_time ==
                    existing_job.scheduled_time + existing_job.estimated_duration
            IN  \/ /\ scheduled_time <= existing_job.scheduled_time
                   /\ existing_job.scheduled_time < job_end_time
                \/ /\ scheduled_time < existing_end_time
                   /\ existing_end_time <= job_end_time
                \/ /\ existing_job.scheduled_time <= scheduled_time
                   /\ scheduled_time < existing_end_time
    IN  ~\E existing_job \in selected : conflicts(existing_job)

AvailabilityCalls ==
    [fn : {"validate_cleaner_availability"},
     existing : {{}} \cup {{e} : e \in CleanerJobs},
     scheduled_time : ScheduledTimes, estimated_duration : EstimatedDurations,
     done : {FALSE}, result : {FALSE}]

ValidateCleanerAvailability ==
    /\ calc.fn = "validate_cleaner_availability"
    /\ ~calc.done
    /\ calc' = [calc EXCEPT
                  !.done = TRUE,
                  !.result = validate_cleaner_availability(
                                 calc.existing, calc.scheduled_time, calc.estimated_duration)]
    /\ UNCHANGED <<jobVars, now, payVars, assignVars>>

\* The job asked about, and the cleaner's ACCEPTED and IN_PROGRESS jobs as the
\* caller of _has_time_conflict selected them.
ConflictCalls ==
    [fn : {"_has_time_conflict"},
     job : {Window(s, 2) : s \in {0, 1, 4, 5}} \cup {Window(2, 1)},
     busy_times : SUBSET {Window(2, 2), Window(8, 1)},
     done : {FALSE}, result : {FALSE}]

HasTimeConflict ==
    /\ calc.fn = "_has_time_conflict"
    /\ ~calc.done
    /\ calc' = [calc EXCEPT
                  !.done = TRUE,
                  !.result = _has_time_conflict(calc.job, calc.busy_times)]
    /\ UNCHANGED <<jobVars, now, payVars, assignVars>>

InitConflict ==
    /\ now = 0
    /\ InitNoJobs
    /\ InitNoPayments
    /\ InitNoAssign
    /\ calc \in AvailabilityCalls \cup ConflictCalls

NextConflict ==
    \/ ValidateCleanerAvailability
    \/ HasTimeConflict

SpecConflict == InitConflict /\ [][NextConflict]_vars

\* C18: each conflict check reports a conflict exactly when some ACCEPTED or
\* IN_PROGRESS job of the cleaner has a half-open window with
\* start < existingEnd and end > existingStart, whatever day it started on;
\* windows that only touch do not conflict.
ConflictIffWindowsIntersect ==
    /\ (calc.fn = "validate_cleaner_availability" /\ calc.done) =>
           (~calc.result <=>
               \E e \in calc.existing :
                   /\ e.status \in {ACCEPTED, IN_PROGRESS}
                   /\ calc.scheduled_time < e.scheduled_time + e.estimated_duration
                   /\ calc.scheduled_time + calc.estimated_duration > e.scheduled_time)
    /\ (calc.fn = "_has_time_conflict" /\ calc.done) =>
           (calc.result <=> \E busy \in calc.busy_times : Intersects(calc.job, busy))

----------------------------------------------------------------------------
(* Further properties of the job lifecycle service (Spec) *)

\* A proposal the service has to reject: the job is neither PENDING nor
\* SCHEDULED, the slot starts in the past, ends no later than it starts, or is
\* more than 15 minutes longer or shorter than the job's estimate.
InvalidProposal(j, start_time, end_time) ==
    \/ jobs[j].status \notin {PENDING, SCHEDULED}
    \/ start_time < now
    \/ end_time <= start_time
    \/ Abs((end_time - start_time) - jobs[j].estimated_duration_minutes) > 15

\* The existing slots of the table.
ExistingSlots == {s \in SlotIds : slots[s].exists}

\* C19: propose_schedule_slot on an existing job fails with a validation error
\* (400) and creates no slot when the proposal is invalid, whatever the form of
\* the times sent; otherwise it succeeds and creates exactly one slot, whose
\* acceptance state is pending.
ProposeValidatesSlot ==
    /\ [](\A j \in JobIds, s \in TimeGrid, e \in SlotEnds, a \in BOOLEAN :
            jobs[j].exists =>
                propose_schedule_slot_code(j, s, e, a)
                    = IF InvalidProposal(j, s, e) THEN 400 ELSE 200)
    /\ [][\A j \in JobIds, s \in TimeGrid, e \in SlotEnds, a \in BOOLEAN, b \in ProposedBy :
            (propose_schedule_slot(j, s, e, a, b) /\ jobs[j].exists) =>
                IF InvalidProposal(j, s, e)
                THEN slots' = slots
                ELSE \E n \in SlotIds \ ExistingSlots :
                        /\ slots' = [slots EXCEPT ![n] = slots'[n]]
                        /\ slots'[n].exists
                        /\ slots'[n].job_id = j
                        /\ slots'[n].is_accepted = SlotPending]_vars

\* C20: PAID and CANCELED are terminal: no step changes the status of a job
\* that is PAID or CANCELED, a COMPLETED job stays COMPLETED or becomes PAID,
\* and cancel_job on a CANCELED job is rejected, whoever asks.
TerminalStatusesStay ==
    /\ [][\A j \in JobIds :
            jobs[j].exists =>
                /\ jobs[j].status \in {PAID, CANCELED} => jobs'[j].status = jobs[j].status
                /\ jobs[j].status = COMPLETED => jobs'[j].status \in {COMPLETED, PAID}]_vars
    /\ [](\A j \in JobIds, u \in Users, b \in BOOLEAN :
            (jobs[j].exists /\ jobs[j].status = CANCELED) => cancel_job_code(j, u, b) # 200)

\* C21: once a job has a cleaner, no step replaces that cleaner by another one
\* or changes the job's scheduled time.
AssignedCleanerStays ==
    [][\A j \in JobIds :
         (jobs[j].exists /\ jobs[j].cleaner_id # NoUser) =>
             /\ jobs'[j].cleaner_id = jobs[j].cleaner_id
             /\ jobs'[j].scheduled_for = jobs[j].scheduled_for]_vars

----------------------------------------------------------------------------
(* app/api/jobs/service.py: complete_job and cancel_job as concurrent         *)
(* requests, each with its own session. A request reads the row               *)
(* (get_job_by_id), checks it and sets the columns on its own copy; it yields *)
(* at the await of JobRepository.update_job, whose commit then writes the     *)
(* columns the request set, whatever the row holds by then.                   *)

complete_job_read(r, j, cleaner_id, actual_duration_minutes) ==
    /\ req[r].pc = "idle"
    /\ req' = [req EXCEPT ![r] =
                 [pc |-> IF complete_job_code(j, cleaner_id) = 200 THEN "loaded" ELSE "failed",
                  op |-> "complete_job",
                  job |-> j,
                  code |-> complete_job_code(j, cleaner_id),
                  completed_at |-> now,
                  actual_duration_minutes |-> actual_duration_minutes,
                  final_cost |-> _calculate_final_cost(jobs[j].base_cost,
                                                       actual_duration_minutes,
                                                       jobs[j].estimated_duration_minutes)]]
    /\ UNCHANGED <<jobVars, now, payVars, fjobs, sessions, calc>>

cancel_job_read(r, j, user_id, is_client) ==
    /\ req[r].pc = "idle"
    /\ req' = [req EXCEPT ![r] =
                 [pc |-> IF cancel_job_code(j, user_id, is_client) = 200
                         THEN "loaded" ELSE "failed",
                  op |-> "cancel_job",
                  job |-> j,
                  code |-> cancel_job_code(j, user_id, is_client)]]
    /\ UNCHANGED <<jobVars, now, payVars, fjobs, sessions, calc>>

\* JobRepository.update_job: db_session.commit() flushes the UPDATE of the
\* columns this request set.
update_job(r) ==
    /\ req[r].pc = "loaded"
    /\ jobs' = IF req[r].op = "complete_job"
               THEN [jobs EXCEPT
                       ![req[r].job].status = COMPLETED,
                       ![req[r].job].completed_at = req[r].completed_at,
                       ![req[r].job].actual_duration_minutes = req[r].actual_duration_minutes,
                       ![req[r].job].final_cost = req[r].final_cost]
               ELSE [jobs EXCEPT ![req[r].job].status = CANCELED]
    /\ req' = [req EXCEPT ![r].pc = "succeeded"]
    /\ UNCHANGED <<slots, now, payVars, fjobs, sessions, calc>>

\* Every job in progress, no request under way.
InitRace ==
    /\ InitIdle
    /\ jobs = [j \in JobIds |-> JobIn(IN_PROGRESS)]
    /\ slots = [s \in SlotIds |-> NoRow]
    /\ InitNoPayments
    /\ InitNoAssign

NextRace ==
    \/ \E r \in ReqIds, j \in JobIds, c \in Cleaners, a \in ActualDurations :
         complete_job_read(r, j, c, a)
    \/ \E r \in ReqIds, j \in JobIds, u \in Users, b \in BOOLEAN :
         cancel_job_read(r, j, u, b)
    \/ \E r \in ReqIds : update_job(r)

SpecRace == InitRace /\ [][NextRace]_vars

\* C22: of a complete_job and a cancel_job on one IN_PROGRESS job, only one
\* succeeds, and no job is CANCELED while carrying a final cost or a
\* completion time.
CompleteAndCancelExclude ==
    /\ \A r1, r2 \in ReqIds :
           (/\ req[r1].pc = "succeeded" /\ req[r1].op = "complete_job"
            /\ req[r2].pc = "succeeded" /\ req[r2].op = "cancel_job")
               => req[r1].job # req[r2].job
    /\ \A j \in JobIds :
           (jobs[j].exists /\ jobs[j].status = CANCELED)
               => jobs[j].final_cost = NoValue /\ jobs[j].completed_at = NoValue

----------------------------------------------------------------------------
(* Liveness of the payment handlers. Time passes; whether and when the        *)
(* gateway delivers a callback is up to the gateway, and the code schedules   *)
(* nothing of its own for a payment in PROCESSING (check_payment_status of    *)
(* app/api/v1/endpoints/payments.py has an empty body).                       *)

SpecPayFair == InitPay /\ [][NextPay]_vars /\ WF_vars(Tick)

\* C23: every payment that reaches PROCESSING eventually reaches COMPLETED or
\* FAILED, a callback for it delivered or not.
ProcessingEventuallySettles ==
    \A p \in PayIds :
        (payments[p].exists /\ payments[p].status = PAY_PROCESSING)
            ~> (payments[p].exists /\ payments[p].status \in {PAY_COMPLETED, PAY_FAILED})

----------------------------------------------------------------------------
(* Further properties of the payment handlers (SpecPay) *)

\* C24: no two payments have the same internal reference, initiations for one
\* job within one second included.
ReferencesAreUnique ==
    \A p, q \in PayIds :
        (payments[p].exists /\ payments[q].exists /\ p # q)
            => payments[p].reference # payments[q].reference

\* Two payments of one job exist, and a further initiation for that job, within
\* the second of the later one, is refused.
TwoPaymentsOfOneJob ==
    \E p, q \in PayIds :
        /\ p # q /\ payments[p].exists /\ payments[q].exists
        /\ payments[p].job_id = payments[q].job_id
        /\ create_payment_raises(payments[q].job_id, payments[q].user_id)

----------------------------------------------------------------------------
(* Further properties of the job lifecycle service (Spec), continued *)

\* C25: create_job adds one job, PENDING, without a cleaner, owned by the
\* calling client, whose base cost is its estimated minutes times 10 per minute
\* (in cents: times 10 * 100).
CreatedJobCostsTenPerMinute ==
    [][\A c \in Clients, d \in Durations :
         create_job(c, d) =>
             \E j \in JobIds :
                 /\ ~jobs[j].exists
                 /\ jobs' = [jobs EXCEPT ![j] = jobs'[j]]
                 /\ jobs'[j].exists
                 /\ jobs'[j].status = PENDING
                 /\ jobs'[j].cleaner_id = NoUser
                 /\ jobs'[j].client_id = c
                 /\ jobs'[j].estimated_duration_minutes = d
                 /\ jobs'[j].base_cost = d * 10 * 100]_vars

\* C26: a request by an actor without permission fails with an authorization
\* error (403) and leaves the jobs and the slots as they were, whatever the
\* job's status: start_job and complete_job by a cleaner other than the
\* assigned one, cancel_job by a user who is neither the client nor the
\* assigned cleaner, accept_schedule_slot by a user other than the client.
UnauthorizedChangesNothing ==
    /\ [](\A j \in JobIds :
            jobs[j].exists =>
                /\ \A c \in Cleaners :
                       c # jobs[j].cleaner_id =>
                           start_job_code(j, c) = 403 /\ complete_job_code(j, c) = 403
                /\ \A u \in Users, b \in BOOLEAN :
                       (u # jobs[j].client_id /\ u # jobs[j].cleaner_id) =>
                           cancel_job_code(j, u, b) = 403
                /\ \A u \in Users, s \in SlotIds :
                       u # jobs[j].client_id => accept_schedule_slot_code(j, s, u) = 403)
    /\ [][\/ UNCHANGED <<jobs, slots>>
          \/ \A j \in JobIds :
               jobs[j].exists =>
                   /\ \A c \in Cleaners :
                          c # jobs[j].cleaner_id =>
                              /\ ~start_job(j, c)
                              /\ \A a \in ActualDurations : ~complete_job(j, c, a)
                   /\ \A u \in Users, b \in BOOLEAN :
                          (u # jobs[j].client_id /\ u # jobs[j].cleaner_id) =>
                              ~cancel_job(j, u, b)
                   /\ \A u \in Users, s \in SlotIds, c \in Cleaners :
                          u # jobs[j].client_id => ~accept_schedule_slot(j, s, u, c)]_vars

\* A job in progress exists, which a cleaner other than its own and a user who
\* is neither its client nor its cleaner could ask to complete or cancel.
JobInProgressWithStrangers ==
    \E j \in JobIds :
        /\ jobs[j].exists
        /\ jobs[j].status = IN_PROGRESS
        /\ \E c \in Cleaners : c # jobs[j].cleaner_id /\ complete_job_code(j, c) = 403
        /\ \E u \in Users : cancel_job_code(j, u, TRUE) = 403 /\ cancel_job_code(j, u, FALSE) = 403

\* C27: accept_schedule_slot by the job's client on a pending slot of the job
\* marks that slot accepted and no other slot, and sets the job SCHEDULED with
\* the given cleaner and the slot's start as scheduled_for; on a slot already
\* accepted or rejected it fails (400), and no step changes such a slot.
AcceptMarksThePendingSlot ==
    /\ [](\A j \in JobIds, s \in SlotIds :
            (/\ jobs[j].exists
             /\ slots[s].exists /\ slots[s].job_id = j
             /\ slots[s].is_accepted # SlotPending)
                => accept_schedule_slot_code(j, s, jobs[j].client_id) = 400)
    /\ [][\/ UNCHANGED <<jobs, slots>>
          \/ /\ \A s \in SlotIds :
                  (slots[s].exists /\ slots[s].is_accepted # SlotPending)
                      => slots'[s] = slots[s]
             /\ \A j \in JobIds, s \in SlotIds, c \in Cleaners :
                  (jobs[j].exists /\ accept_schedule_slot(j, s, jobs[j].client_id, c)) =>
                      /\ slots[s].exists /\ slots[s].job_id = j
                      /\ slots[s].is_accepted = SlotPending
                      /\ slots' = [slots EXCEPT ![s].is_accepted = SlotAccepted]
                      /\ jobs' = [jobs EXCEPT ![j].status = SCHEDULED,
                                              ![j].cleaner_id = c,
                                              ![j].scheduled_for = slots[s].start_time]]_vars

\* A job scheduled by accepting one of its two slots, the other still pending.
AcceptedOneOfTwoSlots ==
    \E j \in JobIds, s, t \in SlotIds :
        /\ jobs[j].exists /\ jobs[j].status = SCHEDULED
        /\ slots[s].exists /\ slots[s].job_id = j /\ slots[s].is_accepted = SlotAccepted
        /\ slots[t].exists /\ slots[t].job_id = j /\ slots[t].is_accepted = SlotPending
        /\ jobs[j].scheduled_for = slots[s].start_time
        /\ accept_schedule_slot_code(j, s, jobs[j].client_id) = 400

----------------------------------------------------------------------------
(* PaymentProcessor.process_mpesa_payment as a function of the payment it is *)
(* given, a row in any status, and of the gateway's answer.                  *)

ProcessCalls ==
    [fn : {"process_mpesa_payment"},
     payment : {[Payment(1, "client1") EXCEPT !.status = st, !.provider_reference = t] :
                   st \in {PAY_PENDING, PAY_PROCESSING, PAY_COMPLETED, PAY_FAILED,
                           PAY_REFUNDED},
                   t \in TransactionIds},
     p : PayIds, answer : GatewayAnswers, done : {FALSE},
     raised : {NoError}, charge_requests : {0}, result : {NoRow}]

ProcessMpesaPayment ==
    /\ calc.fn = "process_mpesa_payment"
    /\ ~calc.done
    /\ calc' = [calc EXCEPT
                  !.done = TRUE,
                  !.raised = process_mpesa_payment_error(calc.payment, calc.answer),
                  !.charge_requests = IF calc.payment.status = PAY_PENDING THEN 1 ELSE 0,
                  !.result = process_mpesa_payment(calc.payment, calc.p, calc.answer)]
    /\ UNCHANGED <<jobVars, now, payVars, assignVars>>

InitProcess ==
    /\ now = 0
    /\ InitNoJobs
    /\ InitNoPayments
    /\ InitNoAssign
    /\ calc \in ProcessCalls

SpecProcess == InitProcess /\ [][ProcessMpesaPayment]_vars

\* C28: process_mpesa_payment on a payment that is not PENDING raises
\* InvalidPaymentStateError, sends no charge request and leaves the payment as
\* it was; on a PENDING payment whose charge request the gateway accepts, the
\* payment becomes PROCESSING and holds the gateway's checkout request id.
ProcessRequiresPendingPayment ==
    (calc.fn = "process_mpesa_payment" /\ calc.done) =>
        IF calc.payment.status # PAY_PENDING
        THEN /\ calc.raised = "InvalidPaymentStateError"
             /\ calc.charge_requests = 0
             /\ calc.result = calc.payment
        ELSE calc.answer = "accepted" =>
                 /\ calc.raised = NoError
                 /\ calc.charge_requests = 1
                 /\ calc.result.status = PAY_PROCESSING
                 /\ calc.result.checkout_request_id = CheckoutRequestID(calc.p)
                 /\ calc.result.checkout_request_id # NoCheckout

\* The processor was called on a payment already PROCESSING, with a gateway
\* that would have accepted the charge request.
ProcessedAProcessingPayment ==
    /\ calc.fn = "process_mpesa_payment" /\ calc.done
    /\ calc.payment.status = PAY_PROCESSING
    /\ calc.answer = "accepted"
    /\ calc.raised = "InvalidPaymentStateError"

----------------------------------------------------------------------------
(* The payment route and the v1 endpoints served side by side: payments of   *)
(* completed jobs, and one accepted, unpaid job of the v1 model.             *)

InitCallbacks ==
    /\ InitIdle
    /\ jobs = [j \in JobIds |-> JobIn(COMPLETED)]
    /\ slots = [s \in SlotIds |-> NoRow]
    /\ payments = [p \in PayIds |-> NoRow]
    /\ legacy = [j \in JobIds |-> IF j = 1 THEN LegacyJob("client1", "cleaner1")
                                   ELSE NoRow]
    /\ notifications = [n \in Notifications |-> 0]
    /\ delivered = NoneDelivered
    /\ InitNoAssign

\* The four handlers at one instant of the clock.
NextCallbacks ==
    \/ \E j \in JobIds, u \in Users, a \in GatewayAnswers : initiate_mpesa_payment(j, u, a)
    \/ \E c \in CheckoutIds, rc \in ResultCodes, t \in TransactionIds :
         mpesa_callback(c, rc, t)
    \/ \E j \in JobIds, u \in Users, a \in GatewayAnswers : initiate_job_payment(j, u, a)
    \/ \E c \in LegacyCheckoutIds \cup {NoCheckout}, rc \in ResultCodes :
         handle_payment_callback(c, rc)

SpecCallbacks == InitCallbacks /\ [][NextCallbacks]_vars

\* The checkout request id matches no payment (no job of the v1 model).
UnmatchedPayment(c) == c # NoCheckout /\ get_payment_by_checkout_request_id(c) = {}
UnmatchedLegacy(c) ==
    c # NoCheckout /\ ~\E j \in JobIds : legacy[j].exists /\ legacy[j].mpesa_reference = c

\* A callback without a match, or without an id, leaves payments and jobs alone.
UnmatchedCallbackChangesNothing ==
    [][\/ UNCHANGED <<jobs, payments, legacy>>
       \/ /\ \A c \in CheckoutIds, rc \in ResultCodes, t \in TransactionIds :
                (c = NoCheckout \/ UnmatchedPayment(c)) => ~mpesa_callback(c, rc, t)
          /\ \A c \in LegacyCheckoutIds \cup {NoCheckout}, rc \in ResultCodes :
                (c = NoCheckout \/ UnmatchedLegacy(c)) => ~handle_payment_callback(c, rc)]_vars

ScoreWithinUnitInterval ==
    (calc.fn = "_calculate_match_score" /\ calc.score # NoValue) =>
        /\ 0 <= calc.score
        /\ calc.score <= ScoreDenominator(calc)

\* The same for the profiles whose completed-job count does not exceed the total.
ScoreWithinUnitIntervalWhenCountsAgree ==
    (/\ calc.fn = "_calculate_match_score" /\ calc.score # NoValue
     /\ calc.cleaner.completed_jobs <= calc.cleaner.total_jobs) =>
        /\ 0 <= calc.score
        /\ calc.score <= ScoreDenominator(calc)

----------------------------------------------------------------------------
(* JobService.start_job (features) at a given time of the week. Times are    *)
(* minutes of Nairobi time counted from Monday 00:00.                        *)

BUSINESS_HOURS_START == 8
BUSINESS_HOURS_END == 20

\* TimeUtils.is_business_hours: a weekday, and the hour within the bounds.
is_business_hours(dt, start_hour, end_hour) ==
    /\ (dt \div MinutesPerDay) % 7 < 5
    /\ start_hour <= (dt % MinutesPerDay) \div 60
    /\ (dt % MinutesPerDay) \div 60 < end_hour

\* TimeTrackingManager.validate_job_schedule. The scheduled_time column is a
\* DateTime without time zone: subtracting the naive value a query loads from
\* the aware current time raises TypeError; aware tells a job object whose
\* scheduled_time carries a zone.
validate_job_schedule(scheduled_time, current_time, aware) ==
    IF scheduled_time \div MinutesPerDay # current_time \div MinutesPerDay
    THEN "BusinessLogicError"
    ELSE IF ~aware THEN "TypeError"
    ELSE IF Abs(current_time - scheduled_time) > 30 THEN "BusinessLogicError"
    ELSE "ok"

\* JobService.start_job with the responses of start_tracking's validations.
start_job_at_code(j, scheduled_time, aware, notified) ==
    IF ~fjobs[j].exists THEN 404
    ELSE IF fjobs[j].status # ACCEPTED THEN 400
    ELSE IF ~is_business_hours(now, BUSINESS_HOURS_START, BUSINESS_HOURS_END) THEN 400
    ELSE IF validate_job_schedule(scheduled_time, now, aware) = "BusinessLogicError" THEN 400
    ELSE IF validate_job_schedule(scheduled_time, now, aware) = "TypeError" THEN 500
    ELSE start_tracking_code(j, TRUE, TRUE, notified)

\* Monday 07:50, 08:10, 10:00, 10:20, 19:50, 20:10 and Saturday 10:00.
StartTimes == {470, 490, 600, 620, 1190, 1210, 7800}
\* Monday 08:00, 10:00, 10:40, 20:00 and Saturday 10:00.
StartScheduledTimes == {480, 600, 640, 1200, 7800}

\* Job 1 accepted by cleaner1 or still pending; job 2 of the same or of another
\* cleaner, accepted or put in progress by a status update.
StartTables ==
    {[j \in JobIds |-> IF j = 1 THEN one ELSE IF j = 2 THEN two ELSE NoRow] :
        one \in {FeatureJob("client1"),
                 [FeatureJob("client1") EXCEPT !.cleaner_id = "cleaner1",
                                               !.status = ACCEPTED]},
        two \in {[FeatureJob("client1") EXCEPT !.cleaner_id = c, !.status = st] :
                    c \in {"cleaner1", "cleaner2"}, st \in {ACCEPTED, IN_PROGRESS}}}

StartCalls ==
    [fn : {"start_job"}, job : {1}, scheduled_time : StartScheduledTimes,
     aware : BOOLEAN, notified : BOOLEAN, done : {FALSE}, code : {0}]

StartJobAt ==
    /\ calc.fn = "start_job"
    /\ ~calc.done
    /\ features_start_job_writes(
           calc.job,
           is_business_hours(now, BUSINESS_HOURS_START, BUSINESS_HOURS_END),
           validate_job_schedule(calc.scheduled_time, now, calc.aware) = "ok",
           calc.notified)
    /\ calc' = [calc EXCEPT
                  !.done = TRUE,
                  !.code = start_job_at_code(calc.job, calc.scheduled_time, calc.aware,
                                             calc.notified)]
    /\ UNCHANGED <<jobVars, now, payVars, req>>

InitStart ==
    /\ now \in StartTimes
    /\ InitNoJobs
    /\ InitNoPayments
    /\ fjobs \in StartTables
    /\ req = [r \in ReqIds |-> Idle]
    /\ sessions = [j \in JobIds |-> NoSession]
    /\ calc \in StartCalls

SpecStart == InitStart /\ [][StartJobAt]_vars

\* The three conditions of a start, as stated: business hours, at most 30
\* minutes from the scheduled time, no other job of the cleaner in progress.
StartChecksPass ==
    /\ is_business_hours(now, 8, 20)
    /\ Abs(now - calc.scheduled_time) <= 30
    /\ ~\E k \in JobIds \ {calc.job} :
          /\ fjobs[k].exists /\ fjobs[k].status = IN_PROGRESS
          /\ fjobs[k].cleaner_id = fjobs[calc.job].cleaner_id

CallbacksClassifyAlike ==
    /\ \A p \in PayIds :
          delivered.mpesa_callback[p] # NoCallback =>
              IF delivered.mpesa_callback[p].result_code = JsonInt(0)
              THEN payments[p].status = PAY_COMPLETED
              ELSE payments[p].status = PAY_FAILED
    /\ \A j \in JobIds :
          delivered.handle_payment_callback[j] # NoCallback =>
              IF delivered.handle_payment_callback[j].result_code = JsonInt(0)
              THEN legacy[j].payment_status = LEGACY_PAID
              ELSE legacy[j].payment_status = LEGACY_FAILED

----------------------------------------------------------------------------
(* Status updates of a job of app/features/jobs: JobService.update_job and   *)
(* the PUT route, which both copy the fields of a JobUpdate onto the row.    *)

CANCELLED == "cancelled"
FeatureJobStatus == {PENDING, ACCEPTED, IN_PROGRESS, COMPLETED, CANCELLED}

\* A field of a JobUpdate: left out of the body, or sent as null; every field
\* of the schema is Optional, and dict(exclude_unset=True) keeps a null sent.
Unset == "unset"
Null == "null"

valid_transitions ==
    {<<PENDING, ACCEPTED>>, <<PENDING, CANCELLED>>,
     <<ACCEPTED, IN_PROGRESS>>, <<ACCEPTED, CANCELLED>>,
     <<IN_PROGRESS, COMPLETED>>, <<IN_PROGRESS, CANCELLED>>}

_validate_status_transition(row, new_status) ==
    IF <<row.status, new_status>> \in valid_transitions
    THEN "ok"
    ELSE "BusinessLogicError"

\* for field, value in job_data.dict(exclude_unset=True).items(): setattr(...)
JobUpdate(row, status, cleaner_id) ==
    [row EXCEPT !.status = IF status = Unset THEN @ ELSE status,
                !.cleaner_id = IF cleaner_id = Unset THEN @ ELSE cleaner_id]

\* JobService.update_job: `if job_data.status` is false for a status left out
\* and for one sent as null, and the transition is then not validated.
features_update_job_code(j, status) ==
    IF ~fjobs[j].exists THEN 404
    ELSE IF status \notin {Unset, Null}
            /\ _validate_status_transition(fjobs[j], status) # "ok" THEN 400
    ELSE 200

features_update_job(j, status, cleaner_id) ==
    /\ fjobs' =
           IF features_update_job_code(j, status) = 200
           THEN [fjobs EXCEPT ![j] = JobUpdate(@, status, cleaner_id)]
           ELSE fjobs
    /\ UNCHANGED <<jobVars, now, payVars, req, sessions, calc>>

\* check_job_permission(allow_owner=True) around the PUT route.
routes_update_job_code(j, user_id) ==
    IF ~fjobs[j].exists THEN 404
    ELSE IF fjobs[j].client_id # user_id THEN 403
    ELSE 200

\* routes.update_job: the fields are set and saved, the status among them.
routes_update_job(j, user_id, status, cleaner_id) ==
    /\ fjobs' =
           IF routes_update_job_code(j, user_id) = 200
           THEN [fjobs EXCEPT ![j] = JobUpdate(@, status, cleaner_id)]
           ELSE fjobs
    /\ UNCHANGED <<jobVars, now, payVars, req, sessions, calc>>

UpdateStatuses == FeatureJobStatus \cup {Unset, Null}
UpdateCleaners == Cleaners \cup {Unset}

InitUpdate ==
    /\ InitIdle
    /\ InitNoJobs
    /\ InitNoPayments
    /\ fjobs = [j \in JobIds |-> FeatureJob("client1")]
    /\ req = [r \in ReqIds |-> Idle]
    /\ sessions = [j \in JobIds |-> NoSession]

NextUpdate ==
    \/ \E j \in JobIds, st \in UpdateStatuses, c \in UpdateCleaners :
         features_update_job(j, st, c)
    \/ \E j \in JobIds, u \in Users, st \in UpdateStatuses, c \in UpdateCleaners :
         routes_update_job(j, u, st, c)

SpecUpdate == InitUpdate /\ [][NextUpdate]_vars

\* JobService.update_job alone, without the route.
SpecServiceUpdate ==
    InitUpdate /\ [][\E j \in JobIds, st \in UpdateStatuses, c \in UpdateCleaners :
                        features_update_job(j, st, c)]_vars

\* C33: the status of a job changes only along PENDING->ACCEPTED,
\* PENDING->CANCELLED, ACCEPTED->IN_PROGRESS, ACCEPTED->CANCELLED,
\* IN_PROGRESS->COMPLETED, IN_PROGRESS->CANCELLED, whichever update path is
\* taken; COMPLETED and CANCELLED are left by none, and a request for any other
\* change is answered BusinessLogicError by JobService.update_job.
StatusChangesFollowTheTable ==
    /\ [](\A j \in JobIds, st \in FeatureJobStatus :
             (fjobs[j].exists /\ <<fjobs[j].status, st>> \notin valid_transitions)
                 => features_update_job_code(j, st) = 400)
    /\ [][\A j \in JobIds :
             \/ fjobs'[j].status = fjobs[j].status
             \/ <<fjobs[j].status, fjobs'[j].status>> \in valid_transitions]_vars

\* The same for the statuses a request names (a null status aside).
NamedStatusChangesFollowTheTable ==
    /\ [](\A j \in JobIds, st \in FeatureJobStatus :
             (fjobs[j].exists /\ <<fjobs[j].status, st>> \notin valid_transitions)
                 => features_update_job_code(j, st) = 400)
    /\ [][\A j \in JobIds :
             \/ fjobs'[j].status = fjobs[j].status
             \/ fjobs'[j].status = Null
             \/ <<fjobs[j].status, fjobs'[j].status>> \in valid_transitions]_vars

----------------------------------------------------------------------------
(* app/shared/middleware/rate_limiter.py: the sliding-window limiter of one  *)
(* key. calc holds the key's sorted set in Redis and the times of the        *)
(* requests that were let through; now is the clock in seconds.              *)

MaxSeconds == 4
MaxAdmitted == 4
\* limit and window of the limiter under check.
RateLimit == 2
RateWindow == 2

\* The clock of time.time() moves on by a second.
SecondPasses ==
    /\ now < MaxSeconds
    /\ now' = now + 1
    /\ UNCHANGED <<jobVars, payVars, assignVars, calc>>

\* The sorted set's commands. A member is str(current_time) and its score is
\* current_time, so the set is known by the times it holds.
zremrangebyscore(zset, lo, hi) == {m \in zset : ~(lo <= m /\ m <= hi)}
zadd(zset, member) == zset \cup {member}
zcount(zset, lo, hi) == Cardinality({m \in zset : lo <= m /\ m <= hi})

\* The key after the pipeline of is_rate_limited, and the count it returns.
\* (The expiry set last removes the key only when every member is older than
\* the window, which the next zremrangebyscore does as well.)
is_rate_limited_key(zset, current_time, window) ==
    zadd(zremrangebyscore(zset, 0, current_time - window), current_time)

is_rate_limited(zset, current_time, limit, window) ==
    zcount(is_rate_limited_key(zset, current_time, window),
           current_time - window, current_time) > limit

\* One request of the key: the pipeline runs as one transaction.
IsRateLimited ==
    /\ calc.fn = "is_rate_limited"
    /\ Len(calc.admitted) < MaxAdmitted
    /\ calc' = [calc EXCEPT
                  !.zset = is_rate_limited_key(@, now, RateWindow),
                  !.admitted = IF is_rate_limited(calc.zset, now, RateLimit, RateWindow)
                               THEN @
                               ELSE Append(@, now)]
    /\ UNCHANGED <<jobVars, now, payVars, assignVars>>

InitSliding ==
    /\ now = 0
    /\ InitNoJobs
    /\ InitNoPayments
    /\ InitNoAssign
    /\ calc = [fn |-> "is_rate_limited", zset |-> {}, admitted |-> <<>>]

NextSliding ==
    \/ IsRateLimited
    \/ SecondPasses

SpecSliding == InitSliding /\ [][NextSliding]_vars

\* The requests let through in the window of RateWindow seconds that ends at t.
AdmittedInWindow(t) ==
    {i \in DOMAIN calc.admitted : t - RateWindow < calc.admitted[i] /\ calc.admitted[i] <= t}

\* C34: the sliding-window limiter lets at most `limit` requests of a key
\* through within any `window` seconds, also when several requests arrive
\* within the same second: the requests beyond the limit are rate limited.
AtMostLimitPerWindow ==
    \A t \in 0..MaxSeconds : Cardinality(AdmittedInWindow(t)) <= RateLimit

\* The same, as long as no two requests let through share a second.
AtMostLimitPerWindowOfDistinctSeconds ==
    (\A i, k \in DOMAIN calc.admitted : i # k => calc.admitted[i] # calc.admitted[k])
        => AtMostLimitPerWindow

----------------------------------------------------------------------------
(* app/api/auth/service.py: AuthService.create_tokens and refresh_tokens.    *)
(* calc holds the refresh_tokens table and, per refresh token, the number of *)
(* token pairs given out in exchange for it; req holds the refresh requests, *)
(* which yield at each await.                                                *)

RefreshTokens == {"refresh1", "refresh2"}
\* What a client may present: a refresh token, or its access token.
PresentedTokens == RefreshTokens \cup {"access"}

\* The type claim of the token's payload, as security.decode_token returns it.
decode_token(token) == IF token \in RefreshTokens THEN "refresh" ELSE "access"

RefreshToken == [exists |-> TRUE, is_revoked |-> FALSE, expired |-> FALSE]

\* refresh_tokens as it was meant: the stored row is found unless revoked, and
\* its expiry is compared with the current time.
refresh_tokens_error_as_meant(table, token, active) ==
    IF decode_token(token) # "refresh" THEN "InvalidTokenError"
    ELSE IF ~table[token].exists \/ table[token].is_revoked THEN "InvalidTokenError"
    ELSE IF table[token].expired THEN "InvalidTokenError"
    ELSE IF ~active THEN "InvalidTokenError"
    ELSE NoError

\* AuthService.get_refresh_token: `models.RefreshToken.is_revoked is False` is
\* the Python constant False, so the query's WHERE clause is false and no row
\* is ever returned.
get_refresh_token(table, token) == NoRow

\* token_model.expires_at < datetime.now(timezone.utc): the column is a
\* DateTime without time zone, and a naive value does not compare with an
\* aware one.
expires_at_check(row) == "TypeError"

\* What refresh_tokens raises before it revokes: every exception leaves as
\* InvalidTokenError.
refresh_tokens_error(table, token, active) ==
    IF decode_token(token) # "refresh" THEN "InvalidTokenError"
    ELSE IF ~get_refresh_token(table, token).exists THEN "InvalidTokenError"
    ELSE IF get_refresh_token(table, token).is_revoked THEN "InvalidTokenError"
    ELSE IF expires_at_check(get_refresh_token(table, token)) # "ok" THEN "InvalidTokenError"
    ELSE IF ~active THEN "InvalidTokenError"
    ELSE NoError

\* create_tokens at a login: a new refresh token is stored.
create_tokens(token) ==
    /\ calc.fn = "refresh_tokens"
    /\ ~calc.table[token].exists
    /\ calc' = [calc EXCEPT !.table[token] = RefreshToken]
    /\ UNCHANGED <<jobVars, now, payVars, assignVars>>

\* The token's expires_at passes.
token_expires(token) ==
    /\ calc.fn = "refresh_tokens"
    /\ calc.table[token].exists
    /\ ~calc.table[token].expired
    /\ calc' = [calc EXCEPT !.table[token].expired = TRUE]
    /\ UNCHANGED <<jobVars, now, payVars, assignVars>>

\* refresh_tokens up to the commit of the revocation.
refresh_tokens_read(r, token, active) ==
    /\ calc.fn = "refresh_tokens"
    /\ req[r].pc = "idle"
    /\ req' = [req EXCEPT ![r] =
                 [pc |-> IF refresh_tokens_error(calc.table, token, active) = NoError
                         THEN "loaded" ELSE "failed",
                  token |-> token,
                  active |-> active,
                  error |-> refresh_tokens_error(calc.table, token, active)]]
    /\ UNCHANGED <<jobVars, now, payVars, fjobs, sessions, calc>>

\* token_model.is_revoked = True, commit, then create_tokens gives a new pair.
refresh_tokens_commit(r) ==
    /\ calc.fn = "refresh_tokens"
    /\ req[r].pc = "loaded"
    /\ calc' = [calc EXCEPT !.table[req[r].token].is_revoked = TRUE,
                            !.yielded[req[r].token] = @ + 1]
    /\ req' = [req EXCEPT ![r].pc = "succeeded"]
    /\ UNCHANGED <<jobVars, now, payVars, fjobs, sessions>>

\* A refresh request runs up to its next await: from the start to the lookups,
\* then, when none of them raised, to the commits.
refresh_tokens(r, token, active) ==
    IF req[r].pc = "idle"
    THEN refresh_tokens_read(r, token, active)
    ELSE /\ token = req[r].token
         /\ active = req[r].active
         /\ refresh_tokens_commit(r)

InitRefresh ==
    /\ now = 0
    /\ InitNoJobs
    /\ InitNoPayments
    /\ InitNoAssign
    /\ calc = [fn |-> "refresh_tokens",
               table |-> [t \in PresentedTokens |-> NoRow],
               yielded |-> [t \in PresentedTokens |-> 0]]

NextRefresh ==
    \/ \E t \in RefreshTokens : create_tokens(t)
    \/ \E t \in RefreshTokens : token_expires(t)
    \/ \E r \in ReqIds, t \in PresentedTokens, a \in BOOLEAN : refresh_tokens(r, t, a)

SpecRefresh == InitRefresh /\ [][NextRefresh]_vars

JobIsChargedOnce ==
    /\ [](\A j \in JobIds :
             Cardinality({p \in PayIds : /\ payments[p].exists
                                         /\ payments[p].job_id = j
                                         /\ payments[p].status = PAY_COMPLETED}) <= 1)
    /\ [][\A p \in PayIds :
             (~payments[p].exists /\ payments'[p].exists) =>
                 ~\E k \in PayIds :
                     /\ payments[k].exists
                     /\ payments[k].job_id = payments'[p].job_id
                     /\ payments[k].status \in {PAY_PROCESSING, PAY_COMPLETED}]_vars

\* The first half alone: at most one payment of a job is COMPLETED.
AtMostOneCompletedPaymentPerJob ==
    \A j \in JobIds :
        Cardinality({p \in PayIds : /\ payments[p].exists
                                    /\ payments[p].job_id = j
                                    /\ payments[p].status = PAY_COMPLETED}) <= 1

\* C37: in every state the job service reaches, a job IN_PROGRESS has a start
\* time; a job COMPLETED or PAID has a start time, a completion time, an actual
\* duration and a final cost; a job that never completed has no final cost; and
\* complete_job never answers that the started_at timestamp is missing.
JobFieldsMatchStatus ==
    /\ \A j \in JobIds :
          jobs[j].exists =>
              /\ jobs[j].status = IN_PROGRESS => jobs[j].started_at # NoValue
              /\ jobs[j].status \in {COMPLETED, PAID} =>
                    /\ jobs[j].started_at # NoValue
                    /\ jobs[j].completed_at # NoValue
                    /\ jobs[j].actual_duration_minutes # NoValue
                    /\ jobs[j].final_cost # NoValue
              /\ jobs[j].completed_at = NoValue => jobs[j].final_cost = NoValue
    /\ \A j \in JobIds, c \in Cleaners : complete_job_code(j, c) # 500

\* One job is paid and another is in progress.
OneJobPaidAnotherInProgress ==
    \E j, k \in JobIds :
        /\ jobs[j].exists /\ jobs[j].status = PAID
        /\ jobs[j].final_cost # NoValue
        /\ jobs[k].exists /\ jobs[k].status = IN_PROGRESS
        /\ jobs[k].started_at # NoValue

----------------------------------------------------------------------------
(* The two cost calculators as functions of the duration: a call computes    *)
(* the cost of two durations a <= b of one job. _calculate_final_cost is in  *)
(* cents. _calculate_final_amount divides by 60 and multiplies by 1.5, so    *)
(* its result is kept exactly as a multiple of 1/120 of the rate's unit:     *)
(* base_rate * (d / 60) is 2 * base_rate * d of these.                       *)

\* _calculate_final_amount with the overtime neither clamped at 0 nor tested.
_calculate_final_amount_unclamped(base_rate, estimated_duration, actual_duration) ==
    2 * base_rate * estimated_duration
        + 3 * base_rate * (actual_duration - estimated_duration)

_calculate_final_amount(base_rate, estimated_duration, actual_duration) ==
    LET base_amount == 2 * base_rate * estimated_duration
        overtime_minutes == max(0, actual_duration - estimated_duration)
    IN  IF overtime_minutes > 0
        THEN base_amount + 3 * base_rate * overtime_minutes
        ELSE base_amount

\* JobBase: base_rate >= 0, estimated_duration >= 60.
JobBaseRates == {0, 300, 450}
JobEstimatedDurations == {60, 120}
ReportedDurations == {-30, 0, 59, 60, 61, 120, 150}

PairCalls ==
    { c \in [fn : {"_calculate_final_cost", "_calculate_final_amount"},
             base : BaseCosts \cup JobBaseRates,
             estimated : EstimatedMinutes \cup JobEstimatedDurations,
             a : ReportedDurations, b : ReportedDurations,
             cost_a : {NoValue}, cost_b : {NoValue}, done : {FALSE}] :
        /\ c.a <= c.b
        /\ c.fn = "_calculate_final_cost" =>
               c.base \in BaseCosts /\ c.estimated \in EstimatedMinutes
        /\ c.fn = "_calculate_final_amount" =>
               c.base \in JobBaseRates /\ c.estimated \in JobEstimatedDurations }

InitPair ==
    /\ now = 0
    /\ InitNoJobs
    /\ InitNoPayments
    /\ InitNoAssign
    /\ calc \in PairCalls

CalculateFinalCostPair ==
    /\ calc.fn = "_calculate_final_cost"
    /\ ~calc.done
    /\ calc' = [calc EXCEPT
                   !.cost_a = _calculate_final_cost(calc.base, calc.a, calc.estimated),
                   !.cost_b = _calculate_final_cost(calc.base, calc.b, calc.estimated),
                   !.done = TRUE]
    /\ UNCHANGED <<jobVars, now, payVars, assignVars>>

CalculateFinalAmountPair ==
    /\ calc.fn = "_calculate_final_amount"
    /\ ~calc.done
    /\ calc' = [calc EXCEPT
                   !.cost_a = _calculate_final_amount(calc.base, calc.estimated, calc.a),
                   !.cost_b = _calculate_final_amount(calc.base, calc.estimated, calc.b),
                   !.done = TRUE]
    /\ UNCHANGED <<jobVars, now, payVars, assignVars>>

NextPair == CalculateFinalCostPair \/ CalculateFinalAmountPair

SpecPair == InitPair /\ [][NextPair]_vars

\* The base amount of a call, in the unit of its result.
BaseAmount(c) ==
    IF c.fn = "_calculate_final_cost" THEN c.base ELSE 2 * c.base * c.estimated

\* C38: both cost calculators never return less than the base amount and are
\* non-decreasing in the actual duration: for a <= b, cost(a) <= cost(b), and
\* the cost is the base amount for every duration up to the estimate, zero
\* and negative reported durations included.
CostIsMonotoneAndAtLeastBase ==
    calc.done =>
        /\ calc.cost_a >= BaseAmount(calc)
        /\ calc.cost_b >= BaseAmount(calc)
        /\ calc.cost_a <= calc.cost_b
        /\ calc.a <= calc.estimated => calc.cost_a = BaseAmount(calc)
        /\ calc.b <= calc.estimated => calc.cost_b = BaseAmount(calc)

\* The hourly calculator has priced a negative duration and an overrun.
PricedNegativeAndOverrun ==
    /\ calc.done
    /\ calc.fn = "_calculate_final_amount"
    /\ calc.a < 0
    /\ calc.b > calc.estimated
    /\ calc.cost_a = BaseAmount(calc)
    /\ calc.cost_b > calc.cost_a

----------------------------------------------------------------------------
(* The fixed-window limiter of app.middleware: one client's key              *)
(* rate_limit:<ip> in Redis, held in calc as its value and the second at     *)
(* which it expires (NoValue: the key has no expiry; value NoValue: no key). *)
(* redis_client is the synchronous client, so a request is two commands      *)
(* sent one after the other, get and then setex or incr; the server's clock  *)
(* and the other workers' commands come between them. last is the second of  *)
(* the latest command of a request of the client.                            *)

\* RateLimiter(times, seconds), scaled down from the defaults 5 and 60.
LimiterTimes == 2
LimiterSeconds == 2

\* Redis drops a key once its expiry is reached.
key_exists(key, t) ==
    /\ key.value # NoValue
    /\ key.expires = NoValue \/ t < key.expires

redis_get(key, t) == IF key_exists(key, t) THEN key.value ELSE NoValue

redis_setex(key, t, seconds, v) == [key EXCEPT !.value = v, !.expires = t + seconds]

\* INCR keeps the expiry of a key that exists and creates a missing key
\* as 1 with no expiry.
redis_incr(key, t) ==
    IF key_exists(key, t)
    THEN [key EXCEPT !.value = @ + 1]
    ELSE [key EXCEPT !.value = 1, !.expires = NoValue]

\* requests = redis_client.get(key)
RateLimiterGet(r) ==
    /\ calc.fn = "RateLimiter"
    /\ req[r].pc = "idle"
    /\ req' = [req EXCEPT ![r] = [pc |-> "got", requests |-> redis_get(calc, now)]]
    /\ calc' = [calc EXCEPT !.last = now]
    /\ UNCHANGED <<jobVars, now, payVars, fjobs, sessions>>

\* The rest of __call__: 429 answers without a write.
RateLimiterCall(r) ==
    /\ calc.fn = "RateLimiter"
    /\ req[r].pc = "got"
    /\ calc' = [(IF req[r].requests = NoValue
                 THEN redis_setex(calc, now, LimiterSeconds, 1)
                 ELSE IF req[r].requests >= LimiterTimes
                      THEN calc
                      ELSE redis_incr(calc, now)) EXCEPT !.last = now]
    /\ req' = [req EXCEPT ![r] = Idle]
    /\ UNCHANGED <<jobVars, now, payVars, fjobs, sessions>>

InitFixed ==
    /\ now = 0
    /\ InitNoJobs
    /\ InitNoPayments
    /\ InitNoAssign
    /\ calc = [fn |-> "RateLimiter", value |-> NoValue, expires |-> NoValue,
               last |-> 0]

NextFixed ==
    \/ \E r \in ReqIds : RateLimiterGet(r)
    \/ \E r \in ReqIds : RateLimiterCall(r)
    \/ SecondPasses

SpecFixed == InitFixed /\ [][NextFixed]_vars

\* C39: the fixed-window limiter never blocks a client permanently: the
\* client's counter key always carries an expiry, and a client that has sent
\* no request for `seconds` is admitted again.
LimiterNeverBlocksForGood ==
    /\ key_exists(calc, now) => calc.expires # NoValue
    /\ (/\ \A r \in ReqIds : req[r].pc = "idle"
        /\ now - calc.last >= LimiterSeconds)
       => ~(key_exists(calc, now) /\ calc.value >= LimiterTimes)

====
